---- MODULE Spec2Model ----
(***************************************************************************)
(* SF State class-schedule scraper: the desktop variant                    *)
(* (sf_state_scraper_interactive.py) and the web variant (app.py).         *)
(*                                                                         *)
(* Text is modelled as a sequence of one-character strings, so that the    *)
(* string operations of the code (strip, split, replace, regular            *)
(* expression searches, int()) are computed and not assumed.               *)
(***************************************************************************)
EXTENDS Integers, Sequences, FiniteSets, TLC

(***************************************************************************)
(* Characters and the Python string operations the code uses               *)
(***************************************************************************)

\* Printable ASCII in code-point order, from 32 (space) to 126 (~); the grave
\* accent (96), which no text of the model holds, is a placeholder.
Ascii ==
  << " ", "!", "\"", "#", "$", "%", "&", "'", "(", ")", "*", "+", ",", "-", ".", "/",
     "0", "1", "2", "3", "4", "5", "6", "7", "8", "9", ":", ";", "<", "=", ">", "?",
     "@", "A", "B", "C", "D", "E", "F", "G", "H", "I", "J", "K", "L", "M", "N", "O",
     "P", "Q", "R", "S", "T", "U", "V", "W", "X", "Y", "Z", "[", "\\", "]", "^", "_",
     "(grave)", "a", "b", "c", "d", "e", "f", "g", "h", "i", "j", "k", "l", "m", "n", "o",
     "p", "q", "r", "s", "t", "u", "v", "w", "x", "y", "z", "{", "|", "}", "~" >>

\* ord(c) for a printable character (tab and newline sort below space).
Ord(c) ==
  IF \E i \in 1..Len(Ascii) : Ascii[i] = c
  THEN 31 + (CHOOSE i \in 1..Len(Ascii) : Ascii[i] = c)
  ELSE 9

DigitChars == {"0", "1", "2", "3", "4", "5", "6", "7", "8", "9"}

UpperChars ==
  {"A", "B", "C", "D", "E", "F", "G", "H", "I", "J", "K", "L", "M",
   "N", "O", "P", "Q", "R", "S", "T", "U", "V", "W", "X", "Y", "Z"}

LowerChars ==
  {"a", "b", "c", "d", "e", "f", "g", "h", "i", "j", "k", "l", "m",
   "n", "o", "p", "q", "r", "s", "t", "u", "v", "w", "x", "y", "z"}

\* str.strip() and str.split() whitespace.
WhiteSpace == {" ", "\t", "\n", "\r"}

\* \w of the re module.
WordChars == DigitChars \cup UpperChars \cup LowerChars \cup {"_"}

\* The value of one decimal digit, the int() of a one-character string.
DigitVal(c) == Ord(c) - 48

ToLowerChar(c) == IF c \in UpperChars THEN Ascii[Ord(c) + 32 - 31] ELSE c

ToUpperChar(c) == IF c \in LowerChars THEN Ascii[Ord(c) - 32 - 31] ELSE c

\* str.lower()
Lower(s) == [i \in 1..Len(s) |-> ToLowerChar(s[i])]

\* str.upper()
Upper(s) == [i \in 1..Len(s) |-> ToUpperChar(s[i])]

\* str.isdigit(): non-empty and all digits.
IsDigitStr(s) == Len(s) > 0 /\ \A i \in 1..Len(s) : s[i] \in DigitChars

\* int(s) of a string of decimal digits.
RECURSIVE ToInt(_)
ToInt(s) ==
  IF Len(s) = 0 THEN 0
  ELSE 10 * ToInt(SubSeq(s, 1, Len(s) - 1)) + DigitVal(s[Len(s)])

RECURSIVE LStrip(_)
LStrip(s) ==
  IF Len(s) > 0 /\ s[1] \in WhiteSpace THEN LStrip(Tail(s)) ELSE s

RECURSIVE RStrip(_)
RStrip(s) ==
  IF Len(s) > 0 /\ s[Len(s)] \in WhiteSpace
  THEN RStrip(SubSeq(s, 1, Len(s) - 1))
  ELSE s

\* str.strip()
Strip(s) == RStrip(LStrip(s))

\* The length of the longest prefix of s whose characters are all in set.
RECURSIVE RunLen(_, _)
RunLen(s, set) ==
  IF Len(s) > 0 /\ s[1] \in set THEN 1 + RunLen(Tail(s), set) ELSE 0

\* str.split(): the maximal runs of non-whitespace characters, in order.
RECURSIVE Split(_)
Split(s) ==
  LET t == LStrip(s)
      n == IF Len(t) = 0 THEN 0
           ELSE CHOOSE k \in 1..Len(t) :
                  /\ \A j \in 1..k : t[j] \notin WhiteSpace
                  /\ (k = Len(t) \/ t[k + 1] \in WhiteSpace)
  IN  IF Len(t) = 0 THEN << >>
      ELSE << SubSeq(t, 1, n) >> \o Split(SubSeq(t, n + 1, Len(t)))

\* sep.join(parts)
RECURSIVE Join(_, _)
Join(sep, parts) ==
  IF Len(parts) = 0 THEN << >>
  ELSE IF Len(parts) = 1 THEN parts[1]
  ELSE parts[1] \o sep \o Join(sep, Tail(parts))

\* str.find(sub) + 1: the least index where sub starts in s, 0 when none.
Find(s, sub) ==
  LET hits == {i \in 1..(Len(s) - Len(sub) + 1) : SubSeq(s, i, i + Len(sub) - 1) = sub}
  IN  IF hits = {} THEN 0 ELSE CHOOSE i \in hits : \A j \in hits : i <= j

\* sub in s
Contains(s, sub) == Len(sub) = 0 \/ Find(s, sub) # 0

\* s.startswith(prefix)
StartsWith(s, prefix) ==
  Len(prefix) <= Len(s) /\ SubSeq(s, 1, Len(prefix)) = prefix

\* s.replace(old, new), old non-empty: every non-overlapping occurrence, from the left.
RECURSIVE Replace(_, _, _)
Replace(s, old, new) ==
  LET i == Find(s, old)
  IN  IF i = 0 THEN s
      ELSE SubSeq(s, 1, i - 1) \o new
             \o Replace(SubSeq(s, i + Len(old), Len(s)), old, new)

\* s.split(",", 1): one part when s has no comma, else the text before the
\* first comma and the text after it.
SplitComma1(s) ==
  LET i == Find(s, << "," >>)
  IN  IF i = 0 THEN << s >>
      ELSE << SubSeq(s, 1, i - 1), SubSeq(s, i + 1, Len(s)) >>

\* Lexicographic order of two strings by code point (Python's str <).
RECURSIVE StrLess(_, _)
StrLess(a, b) ==
  IF Len(b) = 0 THEN FALSE
  ELSE IF Len(a) = 0 THEN TRUE
  ELSE IF a[1] = b[1] THEN StrLess(Tail(a), Tail(b))
  ELSE Ord(a[1]) < Ord(b[1])

Range(f) == {f[i] : i \in DOMAIN f}

(***************************************************************************)
(* Row classifier                                                          *)
(***************************************************************************)

\* Whether \b(\d{3})\b matches s at index i: three digits, with no word
\* character right before them and none right after.
Match3DigitAt(s, i) ==
  /\ i + 2 <= Len(s)
  /\ \A j \in i..(i + 2) : s[j] \in DigitChars
  /\ (i = 1 \/ s[i - 1] \notin WordChars)
  /\ (i + 2 = Len(s) \/ s[i + 3] \notin WordChars)

\* re.search(r"\b(\d{3})\b", s): the start of the leftmost match from index i
\* on, 0 when there is none.
RECURSIVE Search3Digit(_, _)
Search3Digit(s, i) ==
  IF i > Len(s) THEN 0
  ELSE IF Match3DigitAt(s, i) THEN i
  ELSE Search3Digit(s, i + 1)

\* The threshold of the desktop variant: course numbers from 700 are graduate.
GradThreshold == 700

\* A mutant of is_grad: 700 itself is not graduate.
is_grad_above(course_code) ==
  LET m == Search3Digit(course_code, 1)
  IN  IF m # 0 THEN ToInt(SubSeq(course_code, m, m + 2)) > GradThreshold ELSE FALSE

\* classify_courses.is_grad
is_grad(course_code) ==
  LET m == Search3Digit(course_code, 1)
  IN  IF m # 0 THEN ToInt(SubSeq(course_code, m, m + 2)) >= GradThreshold ELSE FALSE

\* The keywords of is_supervision's regular expression.
SupervisionKeywords ==
  { << "I", "n", "d", "e", "p", "e", "n", "d", "e", "n", "t" >>,
    << "I", "n", "t", "e", "r", "n", "s", "h", "i", "p" >>,
    << "S", "u", "p", "e", "r", "v", "i", "s", "i", "o", "n" >>,
    << "T", "h", "e", "s", "i", "s" >>,
    << "F", "i", "e", "l", "d" >>,
    << "R", "e", "s", "e", "a", "r", "c", "h" >> }


\* A mutant of is_supervision: the search is case-sensitive.
is_supervision_cased(title) ==
  \E k \in SupervisionKeywords : Contains(title, k)

\* classify_courses.is_supervision: a case-insensitive search of the title.
is_supervision(title) ==
  \E k \in SupervisionKeywords : Contains(Lower(title), Lower(k))

\* The level classify_courses gives a row.
level(course_code) == IF is_grad(course_code) THEN "grad" ELSE "ug"

\* The web variant's Course Number of a row: the second token of the first
\* cell's text, "000" when there is none.
CourseNumber(first_cell_text) ==
  LET course_match == Split(first_cell_text)
  IN  IF Len(course_match) > 1 THEN course_match[2] ELSE << "0", "0", "0" >>

\* .str[:1].astype(int) raises ValueError unless the first character is a digit.
LeadRaises(course_number) ==
  ~(Len(course_number) > 0 /\ course_number[1] \in DigitChars)

\* .str[:1].astype(int), where it does not raise.
LeadDigit(course_number) == DigitVal(course_number[1])

\* The row filter of ug_classes.
WebIsUg(course_number) == LeadDigit(course_number) <= 6

\* The row filter of grad_classes.
WebIsGrad(course_number) == LeadDigit(course_number) >= 7

\* str.contains('IND|THE|SUP', case=False) on Component.
WebIsSupervision(component) ==
  \E k \in { << "I", "N", "D" >>, << "T", "H", "E" >>, << "S", "U", "P" >> } :
    Contains(Upper(component), k)

(***************************************************************************)
(* Name normalizer                                                         *)
(***************************************************************************)

\* A mutant of split_name: the parts are not trimmed.
split_name_untrimmed(instructor) ==
  IF Len(instructor) = 0 THEN << << >>, << >> >>
  ELSE LET parts == SplitComma1(instructor)
       IN  IF Len(parts) >= 2 THEN << parts[1], parts[2] >>
           ELSE << instructor, << >> >>

\* process_instructor_names.split_name: <<Last Name, First Name>>.
split_name(instructor) ==
  IF Len(instructor) = 0 THEN << << >>, << >> >>
  ELSE LET parts == SplitComma1(instructor)
       IN  IF Len(parts) >= 2 THEN << Strip(parts[1]), Strip(parts[2]) >>
           ELSE << Strip(instructor), << >> >>

\* The web variant's name split: <<Last Name, First Name>>.
WebSplitName(instructor) ==
  LET name_parts == Split(Replace(instructor, << "," >>, << >>))
  IN  IF Len(name_parts) >= 2
      THEN << name_parts[1], Join(<< " " >>, Tail(name_parts)) >>
      ELSE << instructor, << >> >>

(***************************************************************************)
(* Desktop variant: parse_rows                                             *)
(***************************************************************************)

InstructorsLabel == << "I", "n", "s", "t", "r", "u", "c", "t", "o", "r", "s", ":" >>

CrossListedMark == << "C", "r", "o", "s", "s", "-", "L", "i", "s", "t", "e", "d" >>

PairedMark == << "P", "a", "i", "r", "e", "d" >>

NoteCrossListed == << "c", "r", "o", "s", "s", "-", "l", "i", "s", "t", "e", "d" >>

NotePaired == << "p", "a", "i", "r", "e", "d" >>

NoteSeparator == << ";", " " >>

HeaderCourseType == << "c", "o", "u", "r", "s", "e", " ", "t", "y", "p", "e" >>

HeaderClassNumber == << "c", "l", "a", "s", "s", " ", "n", "u", "m", "b", "e", "r" >>

HttpPrefix == << "h", "t", "t", "p" >>

SiteRoot == << "h", "t", "t", "p", "s", ":", "/", "/", "w", "e", "b", "a", "p", "p", "s", ".", "s", "f", "s", "u", ".", "e", "d", "u" >>

\* td_data[k] (k counted from 0) of the cell texts padded with "" to 12 columns.
TdData(tds, k) == IF k + 1 <= Len(tds) THEN tds[k + 1] ELSE << >>

\* The instructor parse_rows derives from column 5: "First Last ..." after
\* the label becomes "Last, First", a single name is kept, anything else is "".
ParseInstructor(instructor_col) ==
  IF Contains(instructor_col, InstructorsLabel)
  THEN LET name_parts == Split(Strip(Replace(instructor_col, InstructorsLabel, << >>)))
       IN  IF Len(name_parts) >= 2
           THEN name_parts[2] \o << ",", " " >> \o name_parts[1]
           ELSE IF Len(name_parts) = 1 THEN name_parts[1]
           ELSE << >>
  ELSE << >>

\* The note parse_rows derives from the course type.
ParseNote(course_type) ==
  LET note_parts ==
        (IF Contains(course_type, CrossListedMark) THEN << NoteCrossListed >> ELSE << >>)
        \o (IF Contains(course_type, PairedMark) THEN << NotePaired >> ELSE << >>)
  IN  Join(NoteSeparator, note_parts)

\* The course link of a table row: the href of its first <a>, made absolute;
\* << >> stands for None (no <a>, or no href).
ParseLink(href) ==
  IF Len(href) > 0 /\ ~StartsWith(href, HttpPrefix) THEN SiteRoot \o href ELSE href

\* One iteration of parse_rows' loop: the rows (none or one) a <tr> appends.
ParseTr(tr, subject) ==
  LET tds == tr.tds
      row_text == Lower(Join(<< " " >>, tds))
      course_code == subject \o << " " >> \o TdData(tds, 3)
      instructor == ParseInstructor(TdData(tds, 5))
  IN  IF Len(tds) < 3 THEN << >>
      ELSE IF Contains(row_text, HeaderCourseType) /\ Contains(row_text, HeaderClassNumber)
      THEN << >>
      ELSE IF Len(course_code) = 0 /\ Len(instructor) = 0 THEN << >>
      ELSE IF Len(instructor) = 0 \/ Len(Strip(instructor)) = 0 THEN << >>
      ELSE << [ course_type  |-> TdData(tds, 0),
                title        |-> TdData(tds, 1),
                units        |-> TdData(tds, 2),
                course_code  |-> course_code,
                instructor   |-> instructor,
                enrolled     |-> 0,
                note         |-> ParseNote(TdData(tds, 0)),
                course_link  |-> ParseLink(tr.href),
                class_number |-> TdData(tds, 3) ] >>

\* parse_rows: the rows of the page's <tr> elements, in order.
RECURSIVE parse_rows(_, _)
parse_rows(trs, subject) ==
  IF Len(trs) = 0 THEN << >>
  ELSE ParseTr(trs[1], subject) \o parse_rows(Tail(trs), subject)

(***************************************************************************)
(* Desktop variant: get_course_enrollment                                  *)
(***************************************************************************)

\* re.findall(r'\d+', text)[0]: the first maximal run of digits, << >> when
\* the text holds no digit.
FirstNumber(text) ==
  LET starts == {i \in 1..Len(text) : text[i] \in DigitChars}
      i == CHOOSE k \in starts : \A j \in starts : k <= j
  IN  IF starts = {} THEN << >>
      ELSE SubSeq(text, i, i + RunLen(SubSeq(text, i, Len(text)), DigitChars) - 1)

\* The length of the match of [A-Z]{2,4}\s+\d{3}[A-Z]? that starts at index i
\* of s, 0 when it does not match there. The letters end where the whitespace
\* begins and the whitespace where the digits begin, so greedy matching has
\* one way to succeed.
CourseCodeMatchLen(s, i) ==
  LET rest == SubSeq(s, i, Len(s))
      nl == RunLen(rest, UpperChars)
      ns == RunLen(SubSeq(rest, nl + 1, Len(rest)), WhiteSpace)
      d == nl + ns
      nd == RunLen(SubSeq(rest, d + 1, Len(rest)), DigitChars)
  IN  IF nl >= 2 /\ nl <= 4 /\ ns >= 1 /\ nd >= 3
      THEN IF Len(rest) >= d + 4 /\ rest[d + 4] \in UpperChars THEN d + 4 ELSE d + 3
      ELSE 0

\* re.search of the course-code pattern from index i on: the matched text,
\* << >> when there is no match.
RECURSIVE CourseCodeSearch(_, _)
CourseCodeSearch(s, i) ==
  IF i > Len(s) THEN << >>
  ELSE IF CourseCodeMatchLen(s, i) > 0
  THEN SubSeq(s, i, i + CourseCodeMatchLen(s, i) - 1)
  ELSE CourseCodeSearch(s, i + 1)

\* A mutant of get_course_enrollment: the number is read with its sign
\* (the pattern -?\d+ in place of \d+).
get_course_enrollment_signed(course_link, detail) ==
  IF Len(course_link) = 0 THEN << 0, << >> >>
  ELSE IF ~detail.loads THEN << 0, << >> >>
  ELSE LET text == Strip(detail.text)
           numbers == IF detail.found THEN FirstNumber(text) ELSE << >>
           at == Find(text, numbers)
           enrolled == IF Len(numbers) = 0 THEN 0
                       ELSE IF at > 1 /\ text[at - 1] = "-" THEN 0 - ToInt(numbers)
                       ELSE ToInt(numbers)
       IN  << enrolled, CourseCodeSearch(detail.page_source, 1) >>

\* get_course_enrollment on a detail page: <<enrolled, actual_course_code>>.
\* A page that does not load raises inside the function, which returns (0, "");
\* a page without the enrollment element leaves enrolled at 0.
get_course_enrollment(course_link, detail) ==
  IF Len(course_link) = 0 THEN << 0, << >> >>
  ELSE IF ~detail.loads THEN << 0, << >> >>
  ELSE LET numbers == IF detail.found THEN FirstNumber(Strip(detail.text)) ELSE << >>
           enrolled == IF Len(numbers) > 0 THEN ToInt(numbers) ELSE 0
       IN  << enrolled, CourseCodeSearch(detail.page_source, 1) >>

(***************************************************************************)
(* Desktop variant: classification, names and create_summary_table         *)
(***************************************************************************)

\* classify_courses: each row with its level and its supervision flag.
classify_courses(rows) ==
  [i \in 1..Len(rows) |->
     [ row         |-> rows[i],
       level       |-> level(rows[i].course_code),
       supervision |-> is_supervision(rows[i].title) ]]

\* process_instructor_names: each row with its Last Name and First Name.
process_instructor_names(df) ==
  [i \in 1..Len(df) |->
     [ row         |-> df[i].row,
       level       |-> df[i].level,
       supervision |-> df[i].supervision,
       LastName    |-> split_name(df[i].row.instructor)[1],
       FirstName   |-> split_name(df[i].row.instructor)[2] ]]

\* A mutant of bucket: supervision is not looked at.
bucket_no_supervision(r) ==
  IF r.level = "ug" THEN "ug_lecture" ELSE "grad_lecture"

\* create_summary_table.bucket
bucket(r) ==
  IF r.level = "ug" /\ ~r.supervision THEN "ug_lecture"
  ELSE IF r.level = "ug" /\ r.supervision THEN "ug_superv"
  ELSE IF r.level = "grad" /\ ~r.supervision THEN "grad_lecture"
  ELSE "grad_superv"

\* column_mapping for the class_count of a bucket (typos as in the source).
ClassColumn(b) ==
  CASE b = "ug_lecture"   -> "Total # of UG classes"
    [] b = "ug_superv"    -> "Total # of UG supervion classes"
    [] b = "grad_lecture" -> "Total # of Grad classes"
    [] b = "grad_superv"  -> "Total # of Grad supervion classes"

\* column_mapping for the student_count of a bucket.
StudentColumn(b) ==
  CASE b = "ug_lecture"   -> "Total # of UG students from Column D"
    [] b = "ug_superv"    -> "Total # of UG students from Column F"
    [] b = "grad_lecture" -> "Total # of Grad students from Colum H"
    [] b = "grad_superv"  -> "Total # of Grad student from Column J"

\* column_order
column_order ==
  << "Last Name",
     "First Name",
     "Total # of UG classes",
     "Total # of UG students from Column D",
     "Total # of UG supervion classes",
     "Total # of UG students from Column F",
     "Total # of Grad classes",
     "Total # of Grad students from Colum H",
     "Total # of Grad supervion classes",
     "Total # of Grad student from Column J",
     "note" >>


\* A mutant of SumOver: every index is given the value of the first one.
SumOver_first(f, idxs) ==
  IF idxs = {} THEN 0
  ELSE f[CHOOSE i \in idxs : \A j \in idxs : i <= j] * Cardinality(idxs)

\* The sum of f[i] over the indices in idxs.
RECURSIVE SumOver(_, _)
SumOver(f, idxs) ==
  IF idxs = {} THEN 0
  ELSE LET i == CHOOSE k \in idxs : TRUE
       IN  f[i] + SumOver(f, idxs \ {i})

\* sorted(S) of a set of strings.
RECURSIVE SortStrings(_)
SortStrings(S) ==
  IF S = {} THEN << >>
  ELSE LET m == CHOOSE x \in S : \A y \in S \ {x} : StrLess(x, y)
       IN  << m >> \o SortStrings(S \ {m})

\* The order of the pivot's index: by Last Name, then by First Name.
KeyLess(a, b) == StrLess(a[1], b[1]) \/ (a[1] = b[1] /\ StrLess(a[2], b[2]))

RECURSIVE SortKeys(_)
SortKeys(S) ==
  IF S = {} THEN << >>
  ELSE LET m == CHOOSE x \in S : \A y \in S \ {x} : KeyLess(x, y)
       IN  << m >> \o SortKeys(S \ {m})


\* A mutant of collect_notes: the empty notes are not filtered out.
collect_notes_unfiltered(df, key) ==
  Join(NoteSeparator,
       SortStrings({df[i].row.note : i \in {j \in DOMAIN df :
                       << df[j].LastName, df[j].FirstName >> = key}}))

\* The note of one instructor: "; ".join(sorted(set(filter(None, notes)))).
collect_notes(df, key) ==
  Join(NoteSeparator,
       SortStrings({df[i].row.note : i \in {j \in DOMAIN df :
                       /\ << df[j].LastName, df[j].FirstName >> = key
                       /\ Len(df[j].row.note) > 0}}))

\* create_summary_table: the pivot by (Last Name, First Name) and bucket,
\* renamed, merged with the notes and cut to the columns that exist. The pivot
\* has columns only for the buckets that occur in df.
create_summary_table(df) ==
  LET bucketOf == [i \in DOMAIN df |-> bucket(df[i])]
      keyOf == [i \in DOMAIN df |-> << df[i].LastName, df[i].FirstName >>]
      student_count == [i \in DOMAIN df |-> df[i].row.enrolled]
      buckets == Range(bucketOf)
      index == SortKeys(Range(keyOf))
      cell(key, b) == {i \in DOMAIN df : keyOf[i] = key /\ bucketOf[i] = b}
      existing == {"Last Name", "First Name", "note"}
                    \cup {ClassColumn(b) : b \in buckets}
                    \cup {StudentColumn(b) : b \in buckets}
      value(key, c) ==
        IF c = "Last Name" THEN key[1]
        ELSE IF c = "First Name" THEN key[2]
        ELSE IF c = "note" THEN collect_notes(df, key)
        ELSE IF \E b \in buckets : c = ClassColumn(b)
        THEN Cardinality(cell(key, CHOOSE b \in buckets : c = ClassColumn(b)))
        ELSE SumOver(student_count, cell(key, CHOOSE b \in buckets : c = StudentColumn(b)))
  IN  [ made    |-> TRUE,
        columns |-> SelectSeq(column_order, LAMBDA c : c \in existing),
        rows    |-> [k \in 1..Len(index) |-> [c \in existing |-> value(index[k], c)]] ]

(***************************************************************************)
(* Web variant: the results table, the detail page and the workload loop   *)
(***************************************************************************)

TBA == << "T", "B", "A" >>

Staff == << "S", "t", "a", "f", "f" >>

\* The words that mark a header row in the first cell.
HeaderKeywords == { << "s", "e", "l", "e", "c", "t" >>, << "c", "l", "a", "s", "s" >>, << "c", "o", "u", "r", "s", "e" >> }

\* The first of cells 7, 8, 9 (counted from 0) whose text is an instructor,
\* "TBA" when there is none.
WebInstructor(cells) ==
  LET texts == [k \in 7..9 |-> IF k + 1 <= Len(cells) THEN Strip(cells[k + 1]) ELSE << >>]
      good == {k \in 7..9 : Len(texts[k]) > 0 /\ texts[k] \notin {TBA, Staff}}
      instructor == IF good = {} THEN << >>
                    ELSE texts[CHOOSE k \in good : \A j \in good : k <= j]
  IN  IF Len(instructor) = 0 \/ instructor \in {TBA, Staff} THEN TBA ELSE instructor

\* One iteration of the loop over the table's rows: the records (none or one)
\* a <tr> appends to data.
WebParseTr(cells) ==
  LET first_cell_text == Strip(cells[1])
      class_nbr == Strip(cells[2])
  IN  IF Len(cells) < 8 THEN << >>
      ELSE IF Len(first_cell_text) = 0
              \/ \E k \in HeaderKeywords : Contains(Lower(first_cell_text), k)
      THEN << >>
      ELSE IF ~IsDigitStr(class_nbr) THEN << >>
      ELSE << [ ClassNbr     |-> class_nbr,
                Section      |-> Strip(cells[3]),
                Component    |-> Strip(cells[4]),
                CourseNumber |-> CourseNumber(first_cell_text),
                Instructor   |-> WebInstructor(cells),
                CourseTitle  |-> first_cell_text,
                Enrollment   |-> 0 ] >>

RECURSIVE WebParseTrs(_)
WebParseTrs(trs) ==
  IF Len(trs) = 0 THEN << >>
  ELSE WebParseTr(trs[1]) \o WebParseTrs(Tail(trs))

\* data: the records of rows[1:], the table's rows after its header row.
WebParseTable(trs) == IF Len(trs) = 0 THEN << >> ELSE WebParseTrs(Tail(trs))

\* extract_enrollment_from_detail_page, line 117: the URL of the detail page
\* of a class.
detail_url(class_nbr) ==
  << "h", "t", "t", "p", "s", ":", "/", "/", "p", "r", "d", "-", "w", "l", "s", "s", "b", ".", "s", "f", "s", "u", ".", "e", "d", "u", "/", "p", "s", "p", "/", "c", "s", "p", "r", "d", "/", "E", "M", "P", "L", "O", "Y", "E", "E", "/", "S", "A", "/", "c", "/", "C", "O", "M", "M", "U", "N", "I", "T", "Y", "_", "A", "C", "C", "E", "S", "S", ".", "C", "L", "A", "S", "S", "_", "S", "E", "A", "R", "C", "H", ".", "G", "B", "L", "?", "P", "a", "g", "e", "=", "S", "S", "R", "_", "C", "L", "S", "R", "C", "H", "_", "E", "N", "T", "R", "Y", "&", "A", "c", "t", "i", "o", "n", "=", "U", "&", "A", "C", "A", "D", "_", "C", "A", "R", "E", "E", "R", "=", "U", "G", "R", "D", "&", "I", "N", "S", "T", "I", "T", "U", "T", "I", "O", "N", "=", "S", "F", "S", "U", "0", "&", "T", "E", "R", "M", "=", "2", "2", "5", "3", "&", "C", "L", "A", "S", "S", "_", "N", "B", "R", "=" >>
    \o class_nbr

\* The largest number the fallback of extract_enrollment_from_detail_page accepts.
MaxDivEnrollment == 500

\* extract_enrollment_from_detail_page on a detail page: the first selector
\* text that is a number, else the first <div> text that is a number up to
\* 500, else 0; 0 as well when anything raises.
extract_enrollment_from_detail_page(detail) ==
  LET sel == {i \in 1..Len(detail.selector_texts) :
                IsDigitStr(Strip(detail.selector_texts[i]))}
      div == {i \in 1..Len(detail.div_texts) :
                /\ IsDigitStr(Strip(detail.div_texts[i]))
                /\ ToInt(Strip(detail.div_texts[i])) <= MaxDivEnrollment}
  IN  IF ~detail.loads THEN 0
      ELSE IF sel # {}
      THEN ToInt(Strip(detail.selector_texts[CHOOSE i \in sel : \A j \in sel : i <= j]))
      ELSE IF div # {}
      THEN ToInt(Strip(detail.div_texts[CHOOSE i \in div : \A j \in div : i <= j]))
      ELSE 0

\* df['Instructor'].unique(): the instructors in order of first appearance.
RECURSIVE Unique(_, _)
Unique(data, seen) ==
  IF Len(data) = 0 THEN << >>
  ELSE IF data[1].Instructor \in seen THEN Unique(Tail(data), seen)
  ELSE << data[1].Instructor >> \o Unique(Tail(data), seen \cup {data[1].Instructor})

\* The columns of workload_df: the keys of a workload_data record, none
\* when workload_data is empty.
WorkloadColumns == SubSeq(column_order, 1, 10)

\* Whether the workload loop raises: .astype(int) fails on the Course Number
\* of a row of an instructor the loop does not skip.
WorkloadRaises(data) ==
  \E i \in 1..Len(data) :
    data[i].Instructor # TBA /\ LeadRaises(data[i].CourseNumber)

\* The workload_data record of one instructor.
WorkloadRecord(data, instructor) ==
  LET instructor_classes == {i \in 1..Len(data) : data[i].Instructor = instructor}
      Enrollment == [i \in 1..Len(data) |-> data[i].Enrollment]
      name == WebSplitName(instructor)
      ug_classes == {i \in instructor_classes : WebIsUg(data[i].CourseNumber)}
      grad_classes == {i \in instructor_classes : WebIsGrad(data[i].CourseNumber)}
      ug_supervision == {i \in ug_classes : WebIsSupervision(data[i].Component)}
      grad_supervision == {i \in grad_classes : WebIsSupervision(data[i].Component)}
  IN  ( "Last Name" :> name[1] @@
        "First Name" :> name[2] @@
        "Total # of UG classes" :> Cardinality(ug_classes) @@
        "Total # of UG students from Column D" :> SumOver(Enrollment, ug_classes) @@
        "Total # of UG supervion classes" :> Cardinality(ug_supervision) @@
        "Total # of UG students from Column F" :> SumOver(Enrollment, ug_supervision) @@
        "Total # of Grad classes" :> Cardinality(grad_classes) @@
        "Total # of Grad students from Colum H" :> SumOver(Enrollment, grad_classes) @@
        "Total # of Grad supervion classes" :> Cardinality(grad_supervision) @@
        "Total # of Grad student from Column J" :> SumOver(Enrollment, grad_supervision) )

\* workload_df: one record per instructor of df other than "TBA", in order of
\* first appearance.
Workload(data) ==
  LET instructors == SelectSeq(Unique(data, {}), LAMBDA x : x # TBA)
  IN  [ made    |-> TRUE,
        columns |-> IF Len(instructors) = 0 THEN << >> ELSE WorkloadColumns,
        rows    |-> [k \in 1..Len(instructors) |-> WorkloadRecord(data, instructors[k])] ]

(***************************************************************************)
(* Bounds and the inputs the environment supplies                          *)
(***************************************************************************)

\* The most <tr> elements a results page holds (after the web table's header).
MaxRows == 3

\* The most scrape runs of one web server process.
MaxRuns == 2

\* The longest string the name normalizer is applied to.
MaxNameLen == 5

\* The longest string the row classifier is applied to.
MaxCodeLen == 5

\* All sequences over S of length 0..n.
SeqUpTo(S, n) == UNION {[1..k -> S] : k \in 0..n}

\* <tr> elements of the desktop results page: the texts of the <td>s and the
\* href of the first <a> (<< >>: none).
DesktopTrs ==
  { [tds |-> << << "L", "e", "c", "t", "u", "r", "e" >>, << "C", "o", "r", "p", " ", "F", "i", "n" >>, << "3" >>, << "1", "0", "0", "1" >>, << >>, << "I", "n", "s", "t", "r", "u", "c", "t", "o", "r", "s", ":", " ", "A", "m", "y", " ", "L", "e", "e" >> >>, href |-> << "/", "1" >>],
    [tds |-> << << "S", "e", "m", "i", "n", "a", "r", " ", "P", "a", "i", "r", "e", "d" >>, << "T", "h", "e", "s", "i", "s" >>, << "3" >>, << "8", "0", "2" >>, << >>, << "I", "n", "s", "t", "r", "u", "c", "t", "o", "r", "s", ":", " ", "A", "m", "y", " ", "L", "e", "e" >> >>, href |-> << "/", "2" >>],
    [tds |-> << << "L", "e", "c", "t", "u", "r", "e" >>, << "C", "o", "r", "p", " ", "F", "i", "n" >>, << "3" >>, << "1", "0", "0", "3" >>, << >>, << "I", "n", "s", "t", "r", "u", "c", "t", "o", "r", "s", ":", " ", "T", "B", "A" >> >>, href |-> << "/", "3" >>],
    [tds |-> << << "L", "e", "c", "t", "u", "r", "e", " ", "C", "r", "o", "s", "s", "-", "L", "i", "s", "t", "e", "d", " ", "P", "a", "i", "r", "e", "d" >>, << "F", "i", "e", "l", "d", " ", "S", "t", "u", "d", "y" >>, << "3" >>, << "8", "1", "2" >>, << >>, << "I", "n", "s", "t", "r", "u", "c", "t", "o", "r", "s", ":", " ", "A", "m", "y", " ", "L", "e", "e" >> >>, href |-> << >>],
    [tds |-> << << "C", "o", "u", "r", "s", "e", " ", "T", "y", "p", "e" >>, << "T", "i", "t", "l", "e" >>, << "U", "n", "i", "t", "s" >>, << "C", "l", "a", "s", "s", " ", "N", "u", "m", "b", "e", "r" >> >>, href |-> << >>],
    [tds |-> << << "L", "e", "c", "t", "u", "r", "e" >>, << "C", "o", "r", "p", " ", "F", "i", "n" >>, << "3" >>, << "1", "0", "0", "4" >>, << >>, << "S", "t", "a", "f", "f" >> >>, href |-> << "/", "4" >>] }

\* Detail pages of the desktop variant: whether driver.get succeeds, whether
\* a selector finds the enrollment element, its text, and the page source.
DesktopDetails ==
  { [loads |-> TRUE, found |-> TRUE, text |-> << "3", "0" >>, page_source |-> << "F", "I", "N", " ", "3", "5", "0" >>],
    [loads |-> TRUE, found |-> TRUE, text |-> << "-", "5" >>, page_source |-> << "F", "I", "N", " ", "7", "9", "9" >>],
    [loads |-> TRUE, found |-> TRUE, text |-> << "E", "n", "r", "o", "l", "l", "e", "d", ":", " ", "1", "2" >>, page_source |-> << "F", "I", "N", " ", "6", "0", "1" >>],
    [loads |-> FALSE, found |-> FALSE, text |-> << >>, page_source |-> << >>] }

\* The header row of the web results table, which rows[1:] skips.
WebHeaderTr == << << "C", "o", "u", "r", "s", "e" >>, << "N", "b", "r" >>, << "S", "e", "c", "t", "i", "o", "n" >>, << "C", "o", "m", "p", "o", "n", "e", "n", "t" >>, << >>, << >>, << >>, << "I", "n", "s", "t", "r", "u", "c", "t", "o", "r" >> >>

\* <tr> elements of the web results table: the texts of the cells.
WebTrs ==
  { << << "F", "I", "N", " ", "3", "5", "0" >>, << "1", "0", "0", "1" >>, << "0", "1" >>, << "L", "E", "C" >>, << >>, << >>, << >>, << "L", "e", "e", ",", " ", "A", "m", "y" >> >>,
    << << "F", "I", "N", " ", "7", "9", "9" >>, << "1", "0", "0", "2" >>, << "0", "1" >>, << "S", "U", "P" >>, << >>, << >>, << >>, << "L", "e", "e", ",", " ", "A", "m", "y" >> >>,
    << << "F", "I", "N", " ", "6", "0", "1" >>, << "1", "0", "0", "3" >>, << "0", "1" >>, << "L", "E", "C" >>, << >>, << >>, << >>, << "L", "e", "e", " ", "A", "m", "y" >> >>,
    << << "F", "I", "N", " ", "X", "5", "0" >>, << "1", "0", "0", "4" >>, << "0", "1" >>, << "L", "E", "C" >>, << >>, << >>, << >>, << "N", "g", ",", " ", "B", "o" >> >>,
    << << "F", "I", "N", " ", "7", "0", "0" >>, << "1", "0", "0", "5" >>, << "0", "1" >>, << "I", "N", "D" >>, << >>, << >>, << >>, << "T", "B", "A" >>, << "S", "t", "a", "f", "f" >> >>,
    << << "F", "I", "N" >>, << "1", "0", "0", "6" >>, << "0", "1" >>, << "L", "E", "C" >>, << >>, << >>, << >>, << "V", "a", "n", " ", "D", "y", "k", "e", ",", " ", "A", "l" >> >>,
    << << "F", "I", "N", " ", "3", "5", "0" >>, << "1", "0", "0", "7" >>, << "0", "1" >>, << "L", "E", "C" >> >> }

\* Detail pages of the web variant: whether the page loads, the texts of the
\* elements the selectors find (in selector order) and of the <div>s of the
\* fallback.
WebDetails ==
  { [loads |-> TRUE, selector_texts |-> << << "3", "0" >> >>, div_texts |-> << >>],
    [loads |-> TRUE, selector_texts |-> << << "O", "p", "e", "n" >> >>, div_texts |-> << << "-", "3" >>, << "5", "0", "1" >>, << "1", "2" >> >>],
    [loads |-> FALSE, selector_texts |-> << >>, div_texts |-> << >>] }

\* What the user types at the desktop prompts.
TermInputs == { << "2", "2", "5", "3" >>, << "2", "2", "5" >> }

SubjectInputs == { << "f", "i", "n" >>, << "f", "1", "n" >> }

ClassCatInputs == { << >>, << "r", "e", "g" >> }

ConfirmInputs == { << >>, << "y" >>, << "y", "e", "s" >>, << "n" >> }

\* The file dialog: a path is chosen, the dialog is cancelled, or it raises.
DialogOutcomes == {"chosen", "cancelled", "error"}

ChosenPath == << "/", "o", "u", "t", ".", "x", "l", "s", "x" >>

\* What the user types in the web sidebar: a term other than the field's
\* default, or nothing.
WebTermInputs == { << "2", "2", "5", "7" >>, << >> }

WebSubjectInputs == { << "F", "I", "N" >> }

(***************************************************************************)
(* State                                                                   *)
(***************************************************************************)

VARIABLES
  variant,   \* "desktop" (sf_state_scraper_interactive.py) or "web" (app.py)
  pc,        \* the place of the run in main / in scrape_sf_state_schedule
  config,    \* the validated inputs of the run
  driver,    \* the browser session: "none", "live" or "quit"
  cached,    \* web: whether get_webdriver's result is in st.cache_resource
  page,      \* the results page that was scraped
  rows,      \* desktop: the list parse_rows returned, enriched in place
  data,      \* web: the list of class records, enriched in place
  idx,       \* the position of the enrichment loop (1-based)
  summary,   \* final_df / workload_df once it is built
  error,     \* the exception that ended the run, "none" when none did
  written,   \* how many spreadsheets have been produced
  runs,      \* web: how many runs the server process has started
  probe      \* a pure function applied to one input, and its result

vars == << variant, pc, config, driver, cached, page, rows, data, idx,
           summary, error, written, runs, probe >>

NoConfig == [ok |-> FALSE]

NoSummary == [made |-> FALSE, columns |-> << >>, rows |-> << >>]

NoProbe == [fn |-> "none", arg |-> << >>, out |-> << >>]

InitRun(v) ==
  /\ variant = v
  /\ pc = "start"
  /\ config = NoConfig
  /\ driver = "none"
  /\ cached = FALSE
  /\ page = << >>
  /\ rows = << >>
  /\ data = << >>
  /\ idx = 0
  /\ summary = NoSummary
  /\ error = "none"
  /\ written = 0
  /\ runs = 0

Init == (\E v \in {"desktop", "web"} : InitRun(v)) /\ probe = NoProbe

(***************************************************************************)
(* Desktop variant: main                                                   *)
(***************************************************************************)

ClassCatDefault == << "R", "E", "G" >>

FallbackSuffix == << "_", "i", "n", "s", "t", "r", "u", "c", "t", "o", "r", "_", "l", "o", "a", "d", ".", "x", "l", "s", "x" >>


\* A mutant of get_user_inputs: the answer to the confirmation is ignored.
get_user_inputs_unconfirmed(term_in, subject_in, classcat_in, dialog, confirm_in) ==
  LET term == Strip(term_in)
      subject == Upper(Strip(subject_in))
      classcat == Upper(Strip(classcat_in))
  IN  IF ~(Len(term) = 4 /\ \A i \in 1..Len(term) : term[i] \in DigitChars)
      THEN NoConfig
      ELSE IF ~(Len(subject) >= 2 /\ Len(subject) <= 5
                /\ \A i \in 1..Len(subject) : subject[i] \in UpperChars)
      THEN NoConfig
      ELSE IF dialog = "cancelled" THEN NoConfig
      ELSE [ ok          |-> TRUE,
             term        |-> term,
             subject     |-> subject,
             classcat    |-> IF Len(classcat) = 0 THEN ClassCatDefault ELSE classcat,
             output_file |-> IF dialog = "chosen" THEN ChosenPath
                             ELSE Lower(subject) \o << "_" >> \o term \o FallbackSuffix ]

\* get_user_inputs: the configuration, or NoConfig (None) when the term is
\* not 4 digits, the subject is not 2 to 5 letters, no output file was
\* selected or the user declined.
get_user_inputs(term_in, subject_in, classcat_in, dialog, confirm_in) ==
  LET term == Strip(term_in)
      subject == Upper(Strip(subject_in))
      classcat == Upper(Strip(classcat_in))
      confirm == Lower(Strip(confirm_in))
  IN  IF ~(Len(term) = 4 /\ \A i \in 1..Len(term) : term[i] \in DigitChars)
      THEN NoConfig
      ELSE IF ~(Len(subject) >= 2 /\ Len(subject) <= 5
                /\ \A i \in 1..Len(subject) : subject[i] \in UpperChars)
      THEN NoConfig
      ELSE IF dialog = "cancelled" THEN NoConfig
      ELSE IF Len(confirm) > 0 /\ confirm # << "y" >> /\ confirm # << "y", "e", "s" >>
      THEN NoConfig
      ELSE [ ok          |-> TRUE,
             term        |-> term,
             subject     |-> subject,
             classcat    |-> IF Len(classcat) = 0 THEN ClassCatDefault ELSE classcat,
             output_file |-> IF dialog = "chosen" THEN ChosenPath
                             ELSE Lower(subject) \o << "_" >> \o term \o FallbackSuffix ]

\* main, lines 538-547: the prompts; the run ends when they give no configuration.
GetUserInputs ==
  /\ variant = "desktop" /\ pc = "start"
  /\ \E term_in \in TermInputs, subject_in \in SubjectInputs,
        classcat_in \in ClassCatInputs, dialog \in DialogOutcomes,
        confirm_in \in ConfirmInputs :
       LET c == get_user_inputs(term_in, subject_in, classcat_in, dialog, confirm_in)
       IN  /\ config' = c
           /\ pc' = IF c.ok THEN "setup" ELSE "exit"
  /\ UNCHANGED << variant, driver, cached, page, rows, data, idx, summary,
                  error, written, runs, probe >>


\* A mutant of SetupDriver: main goes on without a driver.
SetupDriver_unchecked ==
  /\ variant = "desktop" /\ pc = "setup"
  /\ \E ok \in BOOLEAN : driver' = IF ok THEN "live" ELSE "none"
  /\ pc' = "scrape"
  /\ UNCHANGED << variant, config, cached, page, rows, data, idx, summary,
                  error, written, runs, probe >>

\* main, lines 549-553: setup_driver returns a driver or None.
SetupDriver ==
  /\ variant = "desktop" /\ pc = "setup"
  /\ \E ok \in BOOLEAN :
       /\ driver' = IF ok THEN "live" ELSE "none"
       /\ pc' = IF ok THEN "scrape" ELSE "exit"
  /\ UNCHANGED << variant, config, cached, page, rows, data, idx, summary,
                  error, written, runs, probe >>


\* A mutant of ScrapeScheduleData: when the page shows no class data, main
\* goes on to the aggregation.
ScrapeScheduleData_unchecked ==
  /\ variant = "desktop" /\ pc = "scrape"
  /\ \/ /\ error' = "exception"
        /\ pc' = "finally"
        /\ page' = page
     \/ \E trs \in SeqUpTo(DesktopTrs, MaxRows), other_signs \in BOOLEAN :
          LET found_data == Len(trs) > 1 \/ other_signs
          IN  /\ page' = IF found_data THEN trs ELSE << >>
              /\ pc' = IF found_data THEN "parse" ELSE "aggregate"
              /\ error' = error
  /\ UNCHANGED << variant, config, driver, cached, rows, data, idx, summary,
                  written, runs, probe >>

\* main, lines 556-559: scrape_schedule_data. driver.get may raise; the page
\* source is returned when more than one row element is found or the source
\* shows course content, and None otherwise.
ScrapeScheduleData ==
  /\ variant = "desktop" /\ pc = "scrape"
  /\ \/ /\ error' = "exception"
        /\ pc' = "finally"
        /\ page' = page
     \/ \E trs \in SeqUpTo(DesktopTrs, MaxRows), other_signs \in BOOLEAN :
          LET found_data == Len(trs) > 1 \/ other_signs
          IN  /\ page' = IF found_data THEN trs ELSE << >>
              /\ pc' = IF found_data THEN "parse" ELSE "finally"
              /\ error' = error
  /\ UNCHANGED << variant, config, driver, cached, rows, data, idx, summary,
                  written, runs, probe >>


\* A mutant of ParseRows: with no parsed row main returns past the finally
\* block.
ParseRows_no_finally ==
  /\ variant = "desktop" /\ pc = "parse"
  /\ rows' = parse_rows(page, config.subject)
  /\ idx' = 1
  /\ pc' = IF Len(rows') = 0 THEN "exit" ELSE "enrich"
  /\ UNCHANGED << variant, config, driver, cached, page, data, summary,
                  error, written, runs, probe >>

\* main, lines 561-569: parse_rows; the run ends when it finds no row.
ParseRows ==
  /\ variant = "desktop" /\ pc = "parse"
  /\ rows' = parse_rows(page, config.subject)
  /\ idx' = 1
  /\ pc' = IF Len(rows') = 0 THEN "finally" ELSE "enrich"
  /\ UNCHANGED << variant, config, driver, cached, page, data, summary,
                  error, written, runs, probe >>


\* A mutant of EnrichRow: a detail page that does not load ends the loop.
EnrichRow_abort ==
  /\ variant = "desktop" /\ pc = "enrich" /\ idx <= Len(rows)
  /\ IF Len(rows[idx].course_link) > 0
     THEN \E detail \in DesktopDetails :
            LET got == get_course_enrollment(rows[idx].course_link, detail)
            IN  /\ rows' = [rows EXCEPT
                              ![idx].enrolled = got[1],
                              ![idx].course_code = IF Len(got[2]) > 0 THEN got[2] ELSE @]
                /\ pc' = IF detail.loads THEN pc ELSE "finally"
                /\ error' = IF detail.loads THEN error ELSE "exception"
     ELSE rows' = rows /\ pc' = pc /\ error' = error
  /\ idx' = idx + 1
  /\ UNCHANGED << variant, config, driver, cached, page, data, summary,
                  written, runs, probe >>

\* A mutant of EnrichRowWith: the course code is assigned whether or not the
\* detail page gave one.
EnrichRowWith_overwrite(details) ==
  /\ variant = "desktop" /\ pc = "enrich" /\ idx <= Len(rows)
  /\ IF Len(rows[idx].course_link) > 0
     THEN \E detail \in details :
            LET got == get_course_enrollment(rows[idx].course_link, detail)
            IN  rows' = [rows EXCEPT
                           ![idx].enrolled = got[1],
                           ![idx].course_code = got[2]]
     ELSE rows' = rows
  /\ idx' = idx + 1
  /\ UNCHANGED << variant, pc, config, driver, cached, page, data, summary,
                  error, written, runs, probe >>

\* main, lines 573-591: one iteration of the enrichment loop, the detail page
\* of the row being one of details.
EnrichRowWith(details) ==
  /\ variant = "desktop" /\ pc = "enrich" /\ idx <= Len(rows)
  /\ IF Len(rows[idx].course_link) > 0
     THEN \E detail \in details :
            LET got == get_course_enrollment(rows[idx].course_link, detail)
            IN  rows' = [rows EXCEPT
                           ![idx].enrolled = got[1],
                           ![idx].course_code = IF Len(got[2]) > 0 THEN got[2] ELSE @]
     ELSE rows' = rows
  /\ idx' = idx + 1
  /\ UNCHANGED << variant, pc, config, driver, cached, page, data, summary,
                  error, written, runs, probe >>

\* main, lines 573-591: one iteration of the enrichment loop.
EnrichRow == EnrichRowWith(DesktopDetails)

\* main, lines 593-598: back to the results page; driver.get may raise.
ReturnToResults ==
  /\ variant = "desktop" /\ pc = "enrich" /\ idx > Len(rows)
  /\ \E ok \in BOOLEAN :
       /\ pc' = IF ok THEN "aggregate" ELSE "finally"
       /\ error' = IF ok THEN error ELSE "exception"
  /\ UNCHANGED << variant, config, driver, cached, page, rows, data, idx,
                  summary, written, runs, probe >>

\* main, lines 600-607: the DataFrame, its classification and the summary.
CreateSummary ==
  /\ variant = "desktop" /\ pc = "aggregate"
  /\ summary' = create_summary_table(process_instructor_names(classify_courses(rows)))
  /\ pc' = "write"
  /\ UNCHANGED << variant, config, driver, cached, page, rows, data, idx,
                  error, written, runs, probe >>


\* A mutant of WriteExcel: after a write main may write once more.
WriteExcel_again ==
  /\ variant = "desktop" /\ pc = "write"
  /\ \E ok \in BOOLEAN :
       /\ written' = IF ok THEN written + 1 ELSE written
       /\ error' = IF ok THEN error ELSE "exception"
       /\ pc' = IF ok /\ written = 0 THEN "write" ELSE "finally"
  /\ UNCHANGED << variant, config, driver, cached, page, rows, data, idx,
                  summary, runs, probe >>

\* main, lines 609-612: the spreadsheet is written, or the writer raises.
WriteExcel ==
  /\ variant = "desktop" /\ pc = "write"
  /\ \E ok \in BOOLEAN :
       /\ written' = IF ok THEN written + 1 ELSE written
       /\ error' = IF ok THEN error ELSE "exception"
  /\ pc' = "finally"
  /\ UNCHANGED << variant, config, driver, cached, page, rows, data, idx,
                  summary, runs, probe >>

\* main, lines 637-642: driver.quit() in the finally block.
QuitDriver ==
  /\ variant = "desktop" /\ pc = "finally"
  /\ driver' = "quit"
  /\ pc' = "exit"
  /\ UNCHANGED << variant, config, cached, page, rows, data, idx, summary,
                  error, written, runs, probe >>

(***************************************************************************)
(* Web variant: the Run Scraper button and scrape_sf_state_schedule        *)
(***************************************************************************)

\* The sidebar's record of the run's inputs.
WebConfig(term, subject) == [ok |-> TRUE, term |-> term, subject |-> subject]

\* app.py, lines 393-400: the button; with an empty term or subject it only
\* shows an error, otherwise a run starts.
RunScraper ==
  /\ variant = "web" /\ pc = "start" /\ runs < MaxRuns
  /\ \E term \in WebTermInputs, subject \in WebSubjectInputs :
       IF Len(term) = 0 \/ Len(subject) = 0
       THEN UNCHANGED << pc, config, page, data, idx, summary, error, runs >>
       ELSE /\ config' = WebConfig(term, subject)
            /\ pc' = "get_webdriver"
            /\ page' = << >>
            /\ data' = << >>
            /\ idx' = 0
            /\ summary' = NoSummary
            /\ error' = "none"
            /\ runs' = runs + 1
  /\ UNCHANGED << variant, driver, cached, rows, written, probe >>

\* scrape_sf_state_schedule, lines 159-161: get_webdriver under
\* st.cache_resource. The first call makes a driver, or None when Chrome
\* cannot start; every later call returns the object the first one returned.
GetWebdriver ==
  /\ variant = "web" /\ pc = "get_webdriver"
  /\ IF cached
     THEN /\ driver' = driver
          /\ cached' = cached
     ELSE /\ \E ok \in BOOLEAN : driver' = IF ok THEN "live" ELSE "none"
          /\ cached' = TRUE
  /\ pc' = IF driver' = "none" THEN "ui" ELSE "navigate"
  /\ UNCHANGED << variant, config, page, rows, data, idx, summary, error,
                  written, runs, probe >>

\* scrape_sf_state_schedule, lines 164-207: the search form and the wait for
\* the results. A closed session, a missing element or a timeout raises; the
\* except clause returns None.
Navigate ==
  /\ variant = "web" /\ pc = "navigate"
  /\ \/ /\ error' = "exception"
        /\ pc' = "finally"
        /\ page' = page
     \/ /\ driver = "live"
        /\ \E p \in {[no_classes |-> TRUE, has_table |-> FALSE, trs |-> << >>],
                     [no_classes |-> FALSE, has_table |-> FALSE, trs |-> << >>]}
                     \cup {[no_classes |-> FALSE, has_table |-> TRUE,
                            trs |-> << WebHeaderTr >> \o body] :
                             body \in SeqUpTo(WebTrs, MaxRows)} :
             page' = p
        /\ pc' = "parse"
        /\ error' = error
  /\ UNCHANGED << variant, config, driver, cached, rows, data, idx, summary,
                  written, runs, probe >>

\* scrape_sf_state_schedule, lines 209-284: the "No classes were found"
\* message, the results table and its rows; None when there is nothing.
ParseTable ==
  /\ variant = "web" /\ pc = "parse"
  /\ data' = IF page.no_classes \/ ~page.has_table THEN << >>
             ELSE WebParseTable(page.trs)
  /\ idx' = 1
  /\ pc' = IF Len(data') = 0 THEN "finally" ELSE "enrich"
  /\ UNCHANGED << variant, config, driver, cached, page, rows, summary,
                  error, written, runs, probe >>

\* scrape_sf_state_schedule, lines 289-297: one iteration of the enrollment loop.
EnrichClass ==
  /\ variant = "web" /\ pc = "enrich" /\ idx <= Len(data)
  /\ \E detail \in WebDetails :
       data' = [data EXCEPT ![idx].Enrollment = extract_enrollment_from_detail_page(detail)]
  /\ idx' = idx + 1
  /\ UNCHANGED << variant, pc, config, driver, cached, page, rows, summary,
                  error, written, runs, probe >>

\* scrape_sf_state_schedule, lines 302-353: the workload loop; a ValueError
\* of .astype(int) is caught by the except clause, which returns None.
BuildWorkload ==
  /\ variant = "web" /\ pc = "enrich" /\ idx > Len(data)
  /\ IF WorkloadRaises(data)
     THEN /\ error' = "ValueError"
          /\ summary' = summary
     ELSE /\ summary' = Workload(data)
          /\ error' = error
  /\ pc' = "finally"
  /\ UNCHANGED << variant, config, driver, cached, page, rows, data, idx,
                  written, runs, probe >>

\* scrape_sf_state_schedule, lines 354-355: driver.quit() in the finally block.
WebQuitDriver ==
  /\ variant = "web" /\ pc = "finally"
  /\ driver' = "quit"
  /\ pc' = "ui"
  /\ UNCHANGED << variant, config, cached, page, rows, data, idx, summary,
                  error, written, runs, probe >>

\* app.py, lines 402-419: a result is shown with the download link of its
\* spreadsheet; without one nothing is shown.
ShowResult ==
  /\ variant = "web" /\ pc = "ui"
  /\ written' = IF summary.made THEN written + 1 ELSE written
  /\ pc' = "start"
  /\ UNCHANGED << variant, config, driver, cached, page, rows, data, idx,
                  summary, error, runs, probe >>

Next ==
  \/ GetUserInputs
  \/ SetupDriver
  \/ ScrapeScheduleData
  \/ ParseRows
  \/ EnrichRow
  \/ ReturnToResults
  \/ CreateSummary
  \/ WriteExcel
  \/ QuitDriver
  \/ RunScraper
  \/ GetWebdriver
  \/ Navigate
  \/ ParseTable
  \/ EnrichClass
  \/ BuildWorkload
  \/ WebQuitDriver
  \/ ShowResult

Spec == Init /\ [][Next]_vars

(***************************************************************************)
(* The name normalizer and the row classifier applied to single inputs     *)
(***************************************************************************)

\* No run is in progress: only probe changes.
Idle ==
  /\ variant = "none"
  /\ pc = "probe"
  /\ config = NoConfig
  /\ driver = "none"
  /\ cached = FALSE
  /\ page = << >>
  /\ rows = << >>
  /\ data = << >>
  /\ idx = 0
  /\ summary = NoSummary
  /\ error = "none"
  /\ written = 0
  /\ runs = 0

runVars == << variant, pc, config, driver, cached, page, rows, data, idx,
              summary, error, written, runs >>

SmithJane == << "S", "m", "i", "t", "h", ",", " ", "J", "a", "n", "e" >>

JaneSmith == << "J", "a", "n", "e", " ", "S", "m", "i", "t", "h" >>

VanDykeAmy == << "V", "a", "n", " ", "D", "y", "k", "e", ",", " ", "A", "m", "y" >>

\* Instructor strings: every string of up to MaxNameLen characters over two
\* letters, the space and the comma, and the names of the examples.
NameInputs ==
  SeqUpTo({"a", "b", " ", ","}, MaxNameLen) \cup {SmithJane, JaneSmith, VanDykeAmy}

InitNames ==
  /\ Idle
  /\ \E s \in NameInputs : probe = [fn |-> "none", arg |-> s, out |-> << >>]

\* split_name of the desktop variant applied to the input.
ApplySplitName ==
  /\ probe.fn = "none" /\ probe.arg \in NameInputs
  /\ probe' = [probe EXCEPT !.fn = "split_name", !.out = split_name(probe.arg)]
  /\ UNCHANGED runVars

\* The name split of the web variant applied to the input.
ApplyWebSplitName ==
  /\ probe.fn = "none" /\ probe.arg \in NameInputs
  /\ probe' = [probe EXCEPT !.fn = "WebSplitName", !.out = WebSplitName(probe.arg)]
  /\ UNCHANGED runVars

NextNames == ApplySplitName \/ ApplyWebSplitName

SpecNames == InitNames /\ [][NextNames]_vars

FIN350 == << "F", "I", "N", " ", "3", "5", "0" >>

FIN699 == << "F", "I", "N", " ", "6", "9", "9" >>

FIN700 == << "F", "I", "N", " ", "7", "0", "0" >>

MATH715A == << "M", "A", "T", "H", " ", "7", "1", "5", "A" >>

\* Course codes and first-cell texts: every string of up to MaxCodeLen
\* characters over the digits of 699 and 700, a letter and the space, and the
\* codes of the examples.
CodeInputs ==
  SeqUpTo({"0", "6", "7", "9", "A", " "}, MaxCodeLen)
    \cup {FIN350, FIN699, FIN700, MATH715A}

InitLevels ==
  /\ Idle
  /\ \E s \in CodeInputs : probe = [fn |-> "none", arg |-> s, out |-> << >>]

\* classify_courses' level of a row whose course_code is the input.
ApplyLevel ==
  /\ probe.fn = "none" /\ probe.arg \in CodeInputs
  /\ probe' = [probe EXCEPT !.fn = "level", !.out = << level(probe.arg) >>]
  /\ UNCHANGED runVars

\* The web variant's level of a row whose first cell is the input: "raise"
\* when .astype(int) raises, else the filters (ug_classes, grad_classes) the
\* row passes.
ApplyWebLevel ==
  /\ probe.fn = "none" /\ probe.arg \in CodeInputs
  /\ LET course_number == CourseNumber(probe.arg)
     IN  probe' = [probe EXCEPT
                     !.fn = "WebLevel",
                     !.out = IF LeadRaises(course_number) THEN << "raise" >>
                             ELSE (IF WebIsUg(course_number) THEN << "ug" >> ELSE << >>)
                                  \o (IF WebIsGrad(course_number) THEN << "grad" >> ELSE << >>)]
  /\ UNCHANGED runVars

NextLevels == ApplyLevel \/ ApplyWebLevel

SpecLevels == InitLevels /\ [][NextLevels]_vars

(***************************************************************************)
(* Properties                                                              *)
(***************************************************************************)

\* The eight metric columns, by bucket.
MetricColumns ==
  { "Total # of UG classes", "Total # of UG students from Column D",
    "Total # of UG supervion classes", "Total # of UG students from Column F",
    "Total # of Grad classes", "Total # of Grad students from Colum H",
    "Total # of Grad supervion classes", "Total # of Grad student from Column J" }

\* The value a summary row reports in column c, 0 when it has no such column.
Metric(r, c) == IF c \in DOMAIN r THEN r[c] ELSE 0

\* The summary row r has column c, with value v.
Reports(r, c, v) == c \in DOMAIN r /\ r[c] = v

\* The sum of the four class counts of a summary row.
ClassTotal(r) ==
  Metric(r, "Total # of UG classes") + Metric(r, "Total # of UG supervion classes")
    + Metric(r, "Total # of Grad classes") + Metric(r, "Total # of Grad supervion classes")

\* The sum of the four student counts of a summary row.
StudentTotal(r) ==
  Metric(r, "Total # of UG students from Column D")
    + Metric(r, "Total # of UG students from Column F")
    + Metric(r, "Total # of Grad students from Colum H")
    + Metric(r, "Total # of Grad student from Column J")

\* The (Last Name, First Name) pair of a summary row.
PairOf(r) == << r["Last Name"], r["First Name"] >>

\* Desktop: the rows that were aggregated under the pair of summary row r.
DesktopRowsOf(r) ==
  {i \in 1..Len(rows) : split_name(rows[i].instructor) = PairOf(r)}

\* Web: the records of the k-th instructor of the workload loop.
WebRowsOf(k) ==
  LET instructors == SelectSeq(Unique(data, {}), LAMBDA x : x # TBA)
  IN  {i \in 1..Len(data) : data[i].Instructor = instructors[k]}

\* C1 (desktop): for every instructor of the summary the four class counts
\* add up to the number of the instructor's rows and the four student counts
\* to the sum of enrolled over them.
C1_DesktopSums ==
  (variant = "desktop" /\ summary.made) =>
    \A k \in 1..Len(summary.rows) :
      LET r == summary.rows[k]
          enrolled == [i \in 1..Len(rows) |-> rows[i].enrolled]
      IN  /\ ClassTotal(r) = Cardinality(DesktopRowsOf(r))
          /\ StudentTotal(r) = SumOver(enrolled, DesktopRowsOf(r))

\* C1 (web): the same of the workload loop's records.
C1_WebSums ==
  (variant = "web" /\ summary.made) =>
    \A k \in 1..Len(summary.rows) :
      LET r == summary.rows[k]
          Enrollment == [i \in 1..Len(data) |-> data[i].Enrollment]
      IN  /\ ClassTotal(r) = Cardinality(WebRowsOf(k))
          /\ StudentTotal(r) = SumOver(Enrollment, WebRowsOf(k))

\* C1: in both variants every non-excluded row of an instructor is counted in
\* exactly one of the four buckets: the four class counts add up to the number
\* of the instructor's rows and the four student counts to the sum of
\* enrolled over those rows.
C1_SumProperty == C1_DesktopSums /\ C1_WebSums

\* C2: every summary row of create_summary_table carries all eight metric
\* values; a bucket in which the instructor has no row is reported as 0 and is
\* never absent, also when no instructor of the batch has a row in it.
C2_AllEightMetrics ==
  (variant = "desktop" /\ summary.made) =>
    \A k \in 1..Len(summary.rows) :
      \A b \in {"ug_lecture", "ug_superv", "grad_lecture", "grad_superv"} :
        LET r == summary.rows[k]
            df == classify_courses(rows)
            own == {i \in DesktopRowsOf(r) : bucket(df[i]) = b}
        IN  /\ ClassColumn(b) \in DOMAIN r
            /\ StudentColumn(b) \in DOMAIN r
            /\ own = {} => (r[ClassColumn(b)] = 0 /\ r[StudentColumn(b)] = 0)

LeeAmy == << "L", "e", "e", ",", " ", "A", "m", "y" >>

Lee == << "L", "e", "e" >>

Amy == << "A", "m", "y" >>

FIN799 == << "F", "I", "N", " ", "7", "9", "9" >>

FIN601 == << "F", "I", "N", " ", "6", "0", "1" >>

\* The batch of the end-to-end scenario: three rows of "Lee, Amy", FIN 350
\* with 30 enrolled (no supervision title), FIN 799 with 5 (supervision
\* title), FIN 601 with 12 (no supervision title), in any order.
ScenarioBatch ==
  /\ variant = "desktop"
  /\ Len(rows) = 3
  /\ \A i \in 1..3 : rows[i].instructor = LeeAmy
  /\ {<< rows[i].course_code, rows[i].enrolled, is_supervision(rows[i].title) >> :
        i \in 1..3}
       = {<< FIN350, 30, FALSE >>, << FIN799, 5, TRUE >>, << FIN601, 12, FALSE >>}

C4_ElevenColumns ==
  summary.made =>
    summary.columns =
      << "Last Name", "First Name",
         "Total # of UG classes", "Total # of UG students from Column D",
         "Total # of UG supervion classes", "Total # of UG students from Column F",
         "Total # of Grad classes", "Total # of Grad students from Colum H",
         "Total # of Grad supervion classes", "Total # of Grad student from Column J",
         "note" >>

\* C5: in both variants no summary row has a Last Name / First Name derived
\* from an empty, "TBA" or "Staff" instructor.
C5_PlaceholdersExcluded ==
  summary.made =>
    \A k \in 1..Len(summary.rows) :
      ~( /\ summary.rows[k]["Last Name"] \in {<< >>, TBA, Staff}
         /\ summary.rows[k]["First Name"] = << >> )

\* The indices of s at which a maximal run of non-whitespace characters starts.
TokenStarts(s) ==
  {i \in 1..Len(s) : s[i] \notin WhiteSpace /\ (i = 1 \/ s[i - 1] \in WhiteSpace)}

\* The k-th whitespace-separated token of s (k from 1).
TokenAt(s, k) ==
  LET a == CHOOSE i \in TokenStarts(s) : Cardinality({j \in TokenStarts(s) : j < i}) = k - 1
      b == CHOOSE j \in a..Len(s) :
             /\ \A m \in a..j : s[m] \notin WhiteSpace
             /\ (j = Len(s) \/ s[j + 1] \in WhiteSpace)
  IN  SubSeq(s, a, b)

\* The indices of s at which a standalone 3-digit number starts: three
\* digits that are a whole maximal run of word characters.
StandaloneNumbers(s) ==
  {i \in 1..(Len(s) - 2) :
     /\ {s[i], s[i + 1], s[i + 2]} \subseteq DigitChars
     /\ (i > 1 => s[i - 1] \notin WordChars)
     /\ (i + 3 <= Len(s) => s[i + 3] \notin WordChars)}

\* The value of the 3-digit number that starts at index i of s.
NumberAt(s, i) == 100 * DigitVal(s[i]) + 10 * DigitVal(s[i + 1]) + DigitVal(s[i + 2])

\* C6 (desktop): the level is grad iff the first standalone 3-digit number of
\* course_code is at least 700, and ug otherwise.
C6_DesktopLevel ==
  probe.fn = "level" =>
    LET s == probe.arg
        first == CHOOSE i \in StandaloneNumbers(s) : \A j \in StandaloneNumbers(s) : i <= j
        grad == StandaloneNumbers(s) # {} /\ NumberAt(s, first) >= 700
    IN  probe.out = IF grad THEN << "grad" >> ELSE << "ug" >>

\* C6 (web): a row whose Course Number starts with a digit is counted as grad
\* iff that digit is at least 7 and as ug iff it is at most 6.
C6_WebLevel ==
  (probe.fn = "WebLevel" /\ Cardinality(TokenStarts(probe.arg)) >= 2
     /\ TokenAt(probe.arg, 2)[1] \in DigitChars) =>
    LET d == DigitVal(TokenAt(probe.arg, 2)[1])
    IN  probe.out = IF d >= 7 THEN << "grad" >> ELSE << "ug" >>

\* C6: every row gets exactly one level by its variant's rule: desktop, grad
\* iff the first standalone 3-digit number of course_code is >= 700 (699 is
\* ug, 700 is grad); web, grad iff the leading digit of the Course Number is
\* >= 7 and ug iff it is <= 6.
C6_LevelByThreshold == C6_DesktopLevel /\ C6_WebLevel

\* C6, witness: classify_courses has labelled FIN 700 grad.
C6_Witness ==
  probe.fn = "level" /\ probe.arg = FIN700 /\ probe.out = << "grad" >>

\* C7: in both variants a row with a missing or malformed course number is
\* classified undergraduate, and classification never raises or aborts the run.
C7_MalformedIsUndergraduate ==
  /\ error # "ValueError"
  /\ (variant = "desktop" /\ summary.made) =>
       \A i \in 1..Len(rows) :
         StandaloneNumbers(rows[i].course_code) = {}
           => classify_courses(rows)[i].level = "ug"

\* C8: in both variants no two summary rows carry the same
\* (Last Name, First Name) pair.
C8_OneRowPerPair ==
  summary.made =>
    \A j, k \in 1..Len(summary.rows) :
      j # k => PairOf(summary.rows[j]) # PairOf(summary.rows[k])

\* The split of s at its first comma, both parts trimmed.
AtFirstComma(s) ==
  LET i == CHOOSE k \in 1..Len(s) : s[k] = "," /\ \A j \in 1..(k - 1) : s[j] # ","
  IN  << Strip(SubSeq(s, 1, i - 1)), Strip(SubSeq(s, i + 1, Len(s))) >>

HasComma(s) == \E k \in 1..Len(s) : s[k] = ","

\* C9 (desktop): split_name of a string with a comma.
C9_DesktopCommaSplit ==
  (probe.fn = "split_name" /\ HasComma(probe.arg)) => probe.out = AtFirstComma(probe.arg)

\* C9 (web): the web name split of a string with a comma.
C9_WebCommaSplit ==
  (probe.fn = "WebSplitName" /\ HasComma(probe.arg)) => probe.out = AtFirstComma(probe.arg)

\* C9: for an instructor string with a comma, name splitting in both variants
\* gives last = the trimmed text before the first comma and first = the
\* trimmed text after it.
C9_CommaSplit == C9_DesktopCommaSplit /\ C9_WebCommaSplit

\* The whitespace split of the no-comma rule: the first token, and the other
\* tokens joined by single spaces.
ByTokens(s) ==
  LET n == Cardinality(TokenStarts(s))
  IN  IF n >= 2
      THEN << TokenAt(s, 1), Join(<< " " >>, [k \in 1..(n - 1) |-> TokenAt(s, k + 1)]) >>
      ELSE IF n = 1 THEN << TokenAt(s, 1), << >> >>
      ELSE << << >>, << >> >>

\* C10 as stated: without a comma, name splitting splits on whitespace (two or
\* more tokens: the first is the last name, the rest joined the first name;
\* one token: it is the last name; "": both empty).
C10_AsStated ==
  (probe.fn \in {"split_name", "WebSplitName"} /\ ~HasComma(probe.arg))
    => probe.out = ByTokens(probe.arg)

\* C10, amended: without a comma, the web variant splits on whitespace (two or
\* more tokens: the first is the last name, the rest joined by single spaces
\* the first name; fewer: the string as given is the last name and the first
\* name is empty), and the desktop split_name does not split: the whole
\* string, trimmed, is the last name and the first name is empty
\* (split_name("Jane Smith") = ("Jane Smith", ""), split_name("") = ("", "")).
C10_NoCommaSplit ==
  ~HasComma(probe.arg) =>
    /\ probe.fn = "WebSplitName" =>
         probe.out = IF Cardinality(TokenStarts(probe.arg)) >= 2
                     THEN ByTokens(probe.arg)
                     ELSE << probe.arg, << >> >>
    /\ probe.fn = "split_name" =>
         LET s == probe.arg
             ink == {i \in 1..Len(s) : s[i] \notin WhiteSpace}
             a == CHOOSE i \in ink : \A j \in ink : i <= j
             b == CHOOSE i \in ink : \A j \in ink : j <= i
         IN  probe.out = << IF ink = {} THEN << >> ELSE SubSeq(s, a, b), << >> >>

\* C10, witness: split_name has been applied to "Jane Smith".
C10_Witness ==
  probe.fn = "split_name" /\ probe.arg = JaneSmith /\ probe.out = << JaneSmith, << >> >>

\* The non-empty notes of the rows aggregated under summary row r.
NotesOf(r) == {rows[i].note : i \in DesktopRowsOf(r)} \ {<< >>}

\* C11: for every instructor of the summary the note is the instructor's
\* non-empty row notes, each once, in ascending lexicographic order, joined
\* with "; "; with no non-empty note it is the empty string, and the note is
\* never missing.
C11_NoteCollection ==
  (variant = "desktop" /\ summary.made) =>
    \A k \in 1..Len(summary.rows) :
      LET r == summary.rows[k]
          N == NotesOf(r)
      IN  /\ "note" \in DOMAIN r
          /\ \E ns \in [1..Cardinality(N) -> N] :
               /\ \A i, j \in DOMAIN ns : i < j => StrLess(ns[i], ns[j])
               /\ r["note"] = Join(<< ";", " " >>, ns)
          /\ N = {} => r["note"] = << >>

\* C11, witness: an instructor with an empty note and the note "paired" on
\* two rows has the note "paired".
C11_Witness ==
  /\ variant = "desktop" /\ summary.made
  /\ \E k \in 1..Len(summary.rows) :
       /\ summary.rows[k]["note"] = << "p", "a", "i", "r", "e", "d" >>
       /\ \E i, j, m \in DesktopRowsOf(summary.rows[k]) :
            /\ i # j
            /\ rows[i].note = << "p", "a", "i", "r", "e", "d" >> /\ rows[j].note = << "p", "a", "i", "r", "e", "d" >>
            /\ rows[m].note = << >>

\* The sequence s in the order of the permutation p of its indices.
Shuffled(s, p) == [i \in 1..Len(s) |-> s[p[i]]]

\* The names and the metric values of a summary row, without its note.
Counts(r) == [c \in DOMAIN r \ {"note"} |-> r[c]]

\* Two summaries hold the same rows, each as often, whatever their order.
SameRows(a, b) ==
  /\ Len(a) = Len(b)
  /\ \A i \in 1..Len(a) :
       Cardinality({j \in 1..Len(a) : Counts(a[j]) = Counts(a[i])})
         = Cardinality({j \in 1..Len(b) : Counts(b[j]) = Counts(a[i])})

\* C12 (desktop): the summary of the batch in any other order has the same
\* instructors with the same counts and sums.
C12_DesktopOrder ==
  (variant = "desktop" /\ summary.made) =>
    \A p \in Permutations(1..Len(rows)) :
      SameRows(create_summary_table(process_instructor_names(
                 classify_courses(Shuffled(rows, p)))).rows,
               summary.rows)

\* C12 (web): the workload of the batch in any other order has the same
\* records, and the loop raises for one order iff it raises for every order.
C12_WebOrder ==
  (variant = "web" /\ pc \in {"finally", "ui"} /\ idx > Len(data) /\ Len(data) > 0) =>
    \A p \in Permutations(1..Len(data)) :
      IF summary.made
      THEN /\ ~WorkloadRaises(Shuffled(data, p))
           /\ SameRows(Workload(Shuffled(data, p)).rows, summary.rows)
      ELSE error = "ValueError" => WorkloadRaises(Shuffled(data, p))

\* C12: in both variants aggregation is independent of the order of the
\* rows: for every permutation of the batch the summary holds the same
\* instructors with the same eight counts and sums.
C12_OrderIndependent == C12_DesktopOrder /\ C12_WebOrder

\* C12, witness: a summary of two instructors has been made from a batch in
\* which one instructor has two rows with different enrollments.
C12_Witness ==
  /\ variant = "desktop" /\ summary.made /\ Len(summary.rows) = 2
  /\ \E i, j \in 1..Len(rows) :
       /\ rows[i].instructor = rows[j].instructor
       /\ rows[i].enrolled # rows[j].enrolled
       /\ is_supervision(rows[i].title) = is_supervision(rows[j].title)

\* The run has ended: main has returned, or scrape_sf_state_schedule has.
RunEnded == pc = "exit" \/ (variant = "web" /\ pc \in {"ui", "start"})

\* C13: in both variants, whichever way a run ends (success, no results, no
\* parsed row, navigation timeout, an exception at any stage), a browser
\* session that was acquired has been released by driver.quit().
C13_SessionReleased == RunEnded => driver # "live"

\* C13, witness: a desktop run that parsed no row of its results page has
\* ended with its session released.
C13_Witness ==
  /\ variant = "desktop" /\ pc = "exit" /\ driver = "quit"
  /\ Len(page) > 0 /\ Len(rows) = 0

\* Desktop: the rows after the visit of the detail page of row idx.
RowsAfterVisit(detail) ==
  LET got == get_course_enrollment(rows[idx].course_link, detail)
  IN  [rows EXCEPT ![idx].enrolled = got[1],
                   ![idx].course_code = IF Len(got[2]) > 0 THEN got[2] ELSE @]

\* Web: the records after the visit of the detail page of record idx.
DataAfterVisit(detail) ==
  [data EXCEPT ![idx].Enrollment = extract_enrollment_from_detail_page(detail)]

\* C14 (one row): a visit of a row's detail page keeps the run in the loop
\* with no error and moves on to the next row, and a page that fails to load
\* or lacks the enrollment element leaves the row's enrollment at 0.
C14_VisitStep ==
  /\ (variant = "desktop" /\ pc = "enrich" /\ idx <= Len(rows)) =>
       /\ pc' = "enrich" /\ error' = error /\ idx' = idx + 1
       /\ Len(rows') = Len(rows)
       /\ \A detail \in DesktopDetails :
            ((~detail.loads \/ ~detail.found) /\ Len(rows[idx].course_link) > 0
               /\ rows' = RowsAfterVisit(detail))
              => (rows'[idx].enrolled = 0 /\ \A j \in 1..Len(rows) : j # idx => rows'[j] = rows[j])
  /\ (variant = "web" /\ pc = "enrich" /\ idx <= Len(data)) =>
       /\ pc' = "enrich" /\ error' = error /\ idx' = idx + 1
       /\ Len(data') = Len(data)
       /\ \A detail \in WebDetails :
            (~detail.loads /\ data' = DataAfterVisit(detail))
              => (data'[idx].Enrollment = 0 /\ \A j \in 1..Len(data) : j # idx => data'[j] = data[j])

\* C14 (the batch): no error is pending inside the loop, and a summary is
\* made only after every row has been visited.
C14_AllVisited ==
  /\ pc = "enrich" => error = "none"
  /\ (variant = "desktop" /\ summary.made) => idx > Len(rows)
  /\ (variant = "web" /\ summary.made) => idx > Len(data)

\* C14: in both variants a failure at one row's detail page never aborts the
\* batch: the row's enrollment is 0, the later rows are still visited and the
\* summary is made after them.
C14_RowFailureContinues == [][C14_VisitStep]_vars /\ []C14_AllVisited

\* C14, witness: a summary has been made of a batch whose first row's detail
\* page failed to load (enrollment 0, course code never replaced) and whose
\* second row's page gave 30 enrolled.
C14_Witness ==
  /\ variant = "desktop" /\ summary.made /\ Len(rows) >= 2
  /\ Len(rows[1].course_link) > 0
  /\ rows[1].enrolled = 0
  /\ rows[1].course_code = config.subject \o << " " >> \o rows[1].class_number
  /\ rows[2].enrolled = 30

\* C15: in both variants, when the driver cannot be acquired the run ends
\* before any scraping: without a driver the run is never at a scraping
\* stage, no page was navigated to, no row was parsed and no summary or
\* spreadsheet was produced.
C15_NoDriverNoScraping ==
  driver = "none" =>
    /\ pc \in {"start", "setup", "get_webdriver", "ui", "exit"}
    /\ page = << >> /\ rows = << >> /\ data = << >>
    /\ ~summary.made /\ written = 0

\* C15, witness: a desktop run with valid inputs has ended because
\* setup_driver returned None.
C15_Witness ==
  variant = "desktop" /\ config.ok /\ pc = "exit" /\ driver = "none"

(***************************************************************************)
(* The start of main on recorded prompt answers                            *)
(***************************************************************************)

\* What the user may type at the prompts, with the boundary cases of the
\* two formats.
TypedTerms == { << "2", "2", "5", "3" >>, << " ", "2", "2", "5", "3", " " >>, << "2", "2", "5" >>, << "2", "2", "5", "3", "1" >>, << "2", "2", "a", "3" >>, << >> }

TypedSubjects == { << "f", "i", "n" >>, << "f", "i" >>, << "A", "C", "C", "T", "G" >>, << "f" >>, << "f", "i", "n", "a", "n", "c" >>, << "f", "1", "n" >>, << >> }

TypedConfirms == { << >>, << "y" >>, << "Y", "e", "s" >>, << "n" >>, << "n", "o" >> }

\* A desktop run about to start, with the answers the user will give.
InitInputs ==
  /\ InitRun("desktop")
  /\ \E term_in \in TypedTerms, subject_in \in TypedSubjects,
        classcat_in \in ClassCatInputs, dialog \in DialogOutcomes,
        confirm_in \in TypedConfirms :
       probe = [ fn  |-> "none",
                 arg |-> [ term |-> term_in, subject |-> subject_in,
                           classcat |-> classcat_in, dialog |-> dialog,
                           confirm |-> confirm_in ],
                 out |-> << >> ]

\* main, lines 538-542: get_user_inputs on the recorded answers; main
\* returns when it gives no configuration.
AnswerPrompts ==
  /\ variant = "desktop" /\ pc = "start" /\ probe.fn = "none"
  /\ LET a == probe.arg
         c == get_user_inputs(a.term, a.subject, a.classcat, a.dialog, a.confirm)
     IN  /\ config' = c
         /\ pc' = IF c.ok THEN "setup" ELSE "exit"
  /\ probe' = [probe EXCEPT !.fn = "get_user_inputs"]
  /\ UNCHANGED << variant, driver, cached, page, rows, data, idx, summary,
                  error, written, runs >>

NextInputs == AnswerPrompts \/ SetupDriver

SpecInputs == InitInputs /\ [][NextInputs]_vars

\* The answers pass the validation the interactive surface promises: a term
\* of exactly 4 digits, a subject of 2 to 5 letters, an output location (the
\* dialog's, or the fallback when the dialog fails) and no declined
\* confirmation.
ValidAnswers(a) ==
  LET term == Strip(a.term)
      subject == Strip(a.subject)
      confirm == Lower(Strip(a.confirm))
  IN  /\ Len(term) = 4 /\ \A i \in 1..Len(term) : term[i] \in DigitChars
      /\ Len(subject) \in 2..5
      /\ \A i \in 1..Len(subject) : subject[i] \in UpperChars \cup LowerChars
      /\ a.dialog # "cancelled"
      /\ confirm \in { << >>, << "y" >>, << "y", "e", "s" >> }

\* C16: in the interactive variant the driver is acquired only after the
\* answers passed validation (4-digit term, 2-5 letter subject, an output
\* location, no declined confirmation); otherwise the run ends with no
\* driver acquired and no file written.
C16_ValidatedBeforePipeline ==
  /\ (pc = "setup" \/ driver # "none") => ValidAnswers(probe.arg)
  /\ (probe.fn = "get_user_inputs" /\ ~ValidAnswers(probe.arg)) =>
       (pc = "exit" /\ driver = "none" /\ written = 0)

\* C16, witness: a run whose answers were valid except for a declined
\* confirmation has ended without a driver.
C16_Witness ==
  /\ probe.fn = "get_user_inputs" /\ pc = "exit" /\ driver = "none"
  /\ probe.arg.confirm = << "n", "o" >>
  /\ ValidAnswers([probe.arg EXCEPT !.confirm = << >>])

(***************************************************************************)
(* The supervision rules applied to single inputs                          *)
(***************************************************************************)

\* The longest Component string the supervision rules are applied to.
MaxCompLen == 3

\* Titles and components: each keyword as written, in lower and upper case,
\* inside a longer word, between words, cut short and broken by a space,
\* and titles and component codes without a keyword.
TitleInputs ==
  { << >>,
    << "A", " ", "F", "i", "e", "l", "d", " ", "B" >>,
    << "A", " ", "I", "n", "d", "e", "p", "e", "n", "d", "e", "n", "t", " ", "B" >>,
    << "A", " ", "I", "n", "t", "e", "r", "n", "s", "h", "i", "p", " ", "B" >>,
    << "A", " ", "R", "e", "s", "e", "a", "r", "c", "h", " ", "B" >>,
    << "A", " ", "S", "u", "p", "e", "r", "v", "i", "s", "i", "o", "n", " ", "B" >>,
    << "A", " ", "T", "h", "e", "s", "i", "s", " ", "B" >>,
    << "C", "o", "r", "p", " ", "F", "i", "n" >>,
    << "F", "I", "E", "L", "D" >>,
    << "F", "i", " ", "e", "l", "d" >>,
    << "F", "i", "e", "l" >>,
    << "F", "i", "e", "l", "d" >>,
    << "I", "N", "D" >>,
    << "I", "N", "D", "E", "P", "E", "N", "D", "E", "N", "T" >>,
    << "I", "N", "T", "E", "R", "N", "S", "H", "I", "P" >>,
    << "I", "n", " ", "d", "e", "p", "e", "n", "d", "e", "n", "t" >>,
    << "I", "n", " ", "t", "e", "r", "n", "s", "h", "i", "p" >>,
    << "I", "n", "d" >>,
    << "I", "n", "d", "e", "p", "e", "n", "d", "e", "n" >>,
    << "I", "n", "d", "e", "p", "e", "n", "d", "e", "n", "t" >>,
    << "I", "n", "d", "e", "p", "e", "n", "d", "e", "n", "t", " ", "S", "t", "u", "d", "y" >>,
    << "I", "n", "t", "e", "r", "n", "s", "h", "i" >>,
    << "I", "n", "t", "e", "r", "n", "s", "h", "i", "p" >>,
    << "L", "E", "C" >>,
    << "L", "e", "c", "t", "u", "r", "e" >>,
    << "M", "a", "t", "h", "e", "m", "a", "t", "i", "c", "s" >>,
    << "P", "r", "e", "f", "i", "e", "l", "d", "s" >>,
    << "P", "r", "e", "i", "n", "d", "e", "p", "e", "n", "d", "e", "n", "t", "s" >>,
    << "P", "r", "e", "i", "n", "t", "e", "r", "n", "s", "h", "i", "p", "s" >>,
    << "P", "r", "e", "r", "e", "s", "e", "a", "r", "c", "h", "s" >>,
    << "P", "r", "e", "s", "u", "p", "e", "r", "v", "i", "s", "i", "o", "n", "s" >>,
    << "P", "r", "e", "t", "h", "e", "s", "i", "s", "s" >>,
    << "R", "E", "S", "E", "A", "R", "C", "H" >>,
    << "R", "e", " ", "s", "e", "a", "r", "c", "h" >>,
    << "R", "e", "s", "e", "a", "r", "c" >>,
    << "R", "e", "s", "e", "a", "r", "c", "h" >>,
    << "S", "E", "M" >>,
    << "S", "U", "P" >>,
    << "S", "U", "P", "E", "R", "V", "I", "S", "I", "O", "N" >>,
    << "S", "e", "m", "i", "n", "a", "r" >>,
    << "S", "u", " ", "p", "e", "r", "v", "i", "s", "i", "o", "n" >>,
    << "S", "u", "p", "e", "r", "v", "i", "s", "i", "o" >>,
    << "S", "u", "p", "e", "r", "v", "i", "s", "i", "o", "n" >>,
    << "S", "u", "p", "p", "l" >>,
    << "S", "y", "n", "t", "h", "e", "s", "i", "s" >>,
    << "T", "H", "E" >>,
    << "T", "H", "E", "S", "I", "S" >>,
    << "T", "h", " ", "e", "s", "i", "s" >>,
    << "T", "h", "e" >>,
    << "T", "h", "e", "s", "e", "s" >>,
    << "T", "h", "e", "s", "i" >>,
    << "T", "h", "e", "s", "i", "s" >>,
    << "e", "s", "e", "a", "r", "c", "h" >>,
    << "f", "i", "e", "l", "d" >>,
    << "h", "e", "s", "i", "s" >>,
    << "i", "e", "l", "d" >>,
    << "i", "n", "d", "e", "p", "e", "n", "d", "e", "n", "t" >>,
    << "i", "n", "t", "e", "r", "n", "s", "h", "i", "p" >>,
    << "n", "d", "e", "p", "e", "n", "d", "e", "n", "t" >>,
    << "n", "t", "e", "r", "n", "s", "h", "i", "p" >>,
    << "r", "e", "s", "e", "a", "r", "c", "h" >>,
    << "s", "u", "p", "e", "r", "v", "i", "s", "i", "o", "n" >>,
    << "t", "h", "e", "s", "i", "s" >>,
    << "u", "p", "e", "r", "v", "i", "s", "i", "o", "n" >> }

\* The inputs of the supervision rules: the titles, and every string of up
\* to MaxCompLen of the letters of the component keywords.
SupervisionInputs ==
  TitleInputs \cup SeqUpTo({"I", "N", "D", "T", "H", "E", "S", "U", "P", "n"}, MaxCompLen)

InitSupervision ==
  /\ Idle
  /\ \E s \in SupervisionInputs : probe = [fn |-> "none", arg |-> s, out |-> << >>]

\* classify_courses' supervision flag of a row whose title is the input.
ApplyIsSupervision ==
  /\ probe.fn = "none" /\ probe.arg \in SupervisionInputs
  /\ probe' = [probe EXCEPT
                 !.fn = "is_supervision",
                 !.out = IF is_supervision(probe.arg)
                         THEN << "supervision" >> ELSE << "lecture" >>]
  /\ UNCHANGED runVars

\* The web variant's supervision filter on a row whose Component is the input.
ApplyWebIsSupervision ==
  /\ probe.fn = "none" /\ probe.arg \in SupervisionInputs
  /\ probe' = [probe EXCEPT
                 !.fn = "WebIsSupervision",
                 !.out = IF WebIsSupervision(probe.arg)
                         THEN << "supervision" >> ELSE << "lecture" >>]
  /\ UNCHANGED runVars

NextSupervision == ApplyIsSupervision \/ ApplyWebIsSupervision

SpecSupervision == InitSupervision /\ [][NextSupervision]_vars

\* The word k occurs in s at index i, letter case ignored.
OccursAt(s, k, i) ==
  /\ i + Len(k) - 1 <= Len(s)
  /\ \A j \in 1..Len(k) : ToLowerChar(s[i + j - 1]) = ToLowerChar(k[j])

\* The word k occurs in s at index i, letter for letter.
OccursExactlyAt(s, k, i) ==
  /\ i + Len(k) - 1 <= Len(s)
  /\ \A j \in 1..Len(k) : s[i + j - 1] = k[j]

TitleKeywords ==
  { << "I", "n", "d", "e", "p", "e", "n", "d", "e", "n", "t" >>, << "I", "n", "t", "e", "r", "n", "s", "h", "i", "p" >>, << "S", "u", "p", "e", "r", "v", "i", "s", "i", "o", "n" >>, << "T", "h", "e", "s", "i", "s" >>, << "F", "i", "e", "l", "d" >>, << "R", "e", "s", "e", "a", "r", "c", "h" >> }

ComponentKeywords == { << "I", "N", "D" >>, << "T", "H", "E" >>, << "S", "U", "P" >> }

\* C17 (desktop): supervision is true iff the title contains one of the six
\* keywords as a substring, letter case ignored.
C17_DesktopSupervision ==
  probe.fn = "is_supervision" =>
    (probe.out = << "supervision" >>
       <=> \E k \in TitleKeywords, i \in 1..Len(probe.arg) : OccursAt(probe.arg, k, i))

\* C17 as stated: the desktop rule, and in the web variant a row is counted
\* as supervision iff its Component contains IND, THE or SUP as written.
C17_AsStated ==
  /\ C17_DesktopSupervision
  /\ probe.fn = "WebIsSupervision" =>
       (probe.out = << "supervision" >>
          <=> \E k \in ComponentKeywords, i \in 1..Len(probe.arg) :
                OccursExactlyAt(probe.arg, k, i))

\* C17, amended: the desktop rule, and in the web variant a row is counted as
\* supervision iff its Component contains IND, THE or SUP, letter case
\* ignored.
C17_SupervisionRule ==
  /\ C17_DesktopSupervision
  /\ probe.fn = "WebIsSupervision" =>
       (probe.out = << "supervision" >>
          <=> \E k \in ComponentKeywords, i \in 1..Len(probe.arg) :
                OccursAt(probe.arg, k, i))

\* C17, witness: the web filter has counted the Component "Ind" as
\* supervision.
C17_Witness ==
  probe.fn = "WebIsSupervision" /\ probe.arg = << "I", "n", "d" >> /\ probe.out = << "supervision" >>

\* How often the annotation k occurs in the note s.
Occurrences(s, k) == Cardinality({i \in 1..Len(s) : OccursExactlyAt(s, k, i)})

\* C18: the note of an instructor never contains the same annotation twice:
\* cross-listed and paired each occur at most once in the joined note,
\* whatever combination of them the instructor's rows carry.
C18_NoRepeatedAnnotation ==
  (variant = "desktop" /\ summary.made) =>
    \A k \in 1..Len(summary.rows) :
      /\ Occurrences(summary.rows[k]["note"], << "c", "r", "o", "s", "s", "-", "l", "i", "s", "t", "e", "d" >>) <= 1
      /\ Occurrences(summary.rows[k]["note"], << "p", "a", "i", "r", "e", "d" >>) <= 1

\* The run has no results page in its expected state: none was reached
\* (timeout, exception, no class data found), or the web page shows the
\* "No classes were found" message or no results table.
NoResultsPage ==
  \/ page = << >>
  \/ variant = "web" /\ (page.no_classes \/ ~page.has_table)

\* C19 (state): without a results page in its expected state no row was
\* parsed, the run is not in the detail-page loop and no summary was made.
C19_NothingScraped ==
  NoResultsPage =>
    /\ rows = << >> /\ data = << >>
    /\ pc # "enrich" /\ pc # "aggregate" /\ pc # "write"
    /\ ~summary.made
    /\ variant = "desktop" => written = 0

\* C19 (step): without such a page no step visits a detail page or produces
\* a spreadsheet.
C19_NothingWritten ==
  NoResultsPage => (written' = written /\ rows' = rows /\ data' = data)

\* C19: in both variants, when the results page does not reach its expected
\* state (timeout, no class data found, the "No classes were found"
\* message), the run is aborted: no detail page is visited, nothing is
\* aggregated and no summary is returned or written.
C19_NavigationFailureAborts == []C19_NothingScraped /\ [][C19_NothingWritten]_vars

\* C19, witness: a web run whose page showed "No classes were found" has
\* returned without a summary.
C19_Witness ==
  /\ variant = "web" /\ pc = "ui" /\ page # << >>
  /\ page.no_classes /\ ~summary.made /\ driver = "quit"

\* C20 (state): a desktop run has written at most one spreadsheet, and one
\* only with valid inputs, a driver, parsed rows that have all been visited
\* and the summary built.
C20_WrittenAfterSummary ==
  variant = "desktop" =>
    /\ written <= 1
    /\ written = 1 =>
         /\ config.ok /\ driver # "none"
         /\ Len(rows) > 0 /\ idx > Len(rows)
         /\ summary.made

\* C20 (step): the spreadsheet is written only by the write step that
\* follows the aggregation, and not a second time.
C20_WriteStep ==
  (variant = "desktop" /\ written' # written) =>
    /\ written = 0 /\ written' = 1
    /\ pc = "write" /\ summary.made /\ idx > Len(rows)

\* C20: in the desktop variant the spreadsheet is written at most once per
\* run, and only after every parsed row's detail-page visit has finished and
\* the summary has been built; a run that ends early (invalid input, driver
\* failure, navigation failure, no parsed row) writes no file.
C20_WrittenOnceAtEnd == []C20_WrittenAfterSummary /\ [][C20_WriteStep]_vars

\* C20, witness: a desktop run has ended with its spreadsheet written.
C20_Witness ==
  variant = "desktop" /\ pc = "exit" /\ written = 1 /\ Len(summary.rows) >= 1

(***************************************************************************)
(* C21: enrollments and counts are non-negative integers                   *)
(***************************************************************************)

\* The detail pages of the pools that show a text with a minus sign.
SignedDetailShown ==
  \/ \E d \in DesktopDetails : d.found /\ Contains(d.text, << "-" >>)
  \/ \E d \in WebDetails :
       \E i \in 1..Len(d.div_texts) : Contains(d.div_texts[i], << "-" >>)

\* C21 (rows): every parsed row's enrollment is a non-negative integer, before
\* and after its detail page was visited, in both variants.
C21_RowsNonNegative ==
  /\ \A i \in 1..Len(rows) : rows[i].enrolled \in Nat
  /\ \A i \in 1..Len(data) : data[i].Enrollment \in Nat

\* C21 (summary): every class count and every student count of every summary
\* row is a non-negative integer.
C21_CountsNonNegative ==
  summary.made =>
    \A k \in 1..Len(summary.rows) :
      \A c \in MetricColumns \cap DOMAIN summary.rows[k] :
        summary.rows[k][c] \in Nat

\* C21: at every point of a run, in both variants, every row's enrollment is a
\* non-negative integer (0 until its detail page yields a number), and so is
\* every class count and student count of the summary.
C21_EnrollmentNonNegative ==
  /\ C21_RowsNonNegative
  /\ C21_CountsNonNegative
  /\ (pc = "enrich" =>
        /\ \A i \in idx..Len(rows) : rows[i].enrolled = 0
        /\ \A i \in idx..Len(data) : data[i].Enrollment = 0)

\* A desktop summary counts the 5 students of the page that showed "-5",
\* next to a row whose page did not load.
C21_Witness ==
  /\ SignedDetailShown
  /\ variant = "desktop"
  /\ summary.made
  /\ \E i, j \in 1..Len(rows) :
       /\ rows[i].enrolled = 5
       /\ Len(rows[j].course_link) > 0 /\ rows[j].enrolled = 0
  /\ \E k \in 1..Len(summary.rows) : StudentTotal(summary.rows[k]) = 5

(***************************************************************************)
(* C22: the enrichment loop of main on its own                             *)
(***************************************************************************)

\* The most <tr> elements of the results pages the loop is run on.
MaxLoopRows == 2

\* The detail pages of the loop: those of the pipeline, and a page that shows
\* an enrollment of 7 and no course code.
LoopDetails ==
  DesktopDetails \cup
    { [loads |-> TRUE, found |-> TRUE, text |-> << "7" >>, page_source |-> << "C", "l", "a", "s", "s", " ", "d", "e", "t", "a", "i", "l", "s" >>] }

\* The configuration of the loop's runs.
LoopConfig == get_user_inputs(<< "2", "2", "5", "3" >>, << "f", "i", "n" >>, << >>, "error", << >>)

\* main at line 573: valid inputs, a live driver, and the rows parse_rows
\* made of a results page.
InitEnrich ==
  /\ variant = "desktop"
  /\ pc = "enrich"
  /\ config = LoopConfig
  /\ driver = "live"
  /\ cached = FALSE
  /\ page \in SeqUpTo(DesktopTrs, MaxLoopRows)
  /\ rows = parse_rows(page, config.subject)
  /\ Len(rows) > 0
  /\ data = << >>
  /\ idx = 1
  /\ summary = NoSummary
  /\ error = "none"
  /\ written = 0
  /\ runs = 0
  /\ probe = NoProbe

\* One iteration of the loop, on one of the loop's detail pages.
VisitRow == EnrichRowWith(LoopDetails)

NextEnrich == VisitRow

SpecEnrich == InitEnrich /\ [][NextEnrich]_vars

\* The course code parse_rows gives a row before its detail page is read.
Placeholder(row) == config.subject \o << " " >> \o row.class_number

\* The course codes the detail pages of the loop show.
CodesShown ==
  {CourseCodeSearch(d.page_source, 1) : d \in {x \in LoopDetails : x.loads}} \ {<< >>}

\* C22 (rows without a link): a row without a course link holds enrolled = 0
\* and its placeholder course code at every point of the loop.
C22_UnlinkedUntouched ==
  \A i \in 1..Len(rows) :
    Len(rows[i].course_link) = 0 =>
      (rows[i].enrolled = 0 /\ rows[i].course_code = Placeholder(rows[i]))

\* C22 (one iteration): the iteration of row idx changes no other row and no
\* field of row idx but enrolled and course_code; a row without a link is not
\* changed at all; and course_code either stays or becomes a course code that
\* a detail page showed.
C22_VisitFrame ==
  (pc = "enrich" /\ idx <= Len(rows)) =>
    /\ Len(rows') = Len(rows)
    /\ \A j \in 1..Len(rows) : j # idx => rows'[j] = rows[j]
    /\ Len(rows[idx].course_link) = 0 => rows'[idx] = rows[idx]
    /\ rows'[idx] = [rows[idx] EXCEPT !.enrolled = rows'[idx].enrolled,
                                     !.course_code = rows'[idx].course_code]
    /\ rows'[idx].enrolled \in Nat
    /\ \/ rows'[idx].course_code = rows[idx].course_code
       \/ rows'[idx].course_code \in CodesShown

\* C22: in the desktop enrichment loop a row without a course link is never
\* visited and keeps enrolled = 0 and its placeholder course code; a visited
\* row whose detail page yields no course code keeps its course code, only
\* enrolled being assigned; and a visit modifies no field of any other row.
C22_EnrichmentFrame == []C22_UnlinkedUntouched /\ [][C22_VisitFrame]_vars

\* After the loop: a visited row holds the 7 of the page without a course
\* code and still its placeholder, next to a row without a link.
C22_Witness ==
  /\ pc = "enrich" /\ idx > Len(rows) /\ Len(rows) = 2
  /\ \E i, j \in 1..Len(rows) :
       /\ Len(rows[i].course_link) > 0
       /\ rows[i].enrolled = 7
       /\ rows[i].course_code = Placeholder(rows[i])
       /\ Len(rows[j].course_link) = 0
       /\ rows[j].enrolled = 0

(***************************************************************************)
(* C23: the level of a row that keeps its placeholder course code          *)
(***************************************************************************)

\* C23: in the desktop variant a row that keeps the placeholder course code
\* "<subject> <class number>" is classified undergraduate, whatever its class
\* number is.
C23_PlaceholderIsUndergraduate ==
  (variant = "desktop" /\ summary.made) =>
    \A i \in 1..Len(rows) :
      rows[i].course_code = Placeholder(rows[i])
        => classify_courses(rows)[i].level = "ug"

(***************************************************************************)
(* C24: the session the cached get_webdriver hands to a run                *)
(***************************************************************************)

\* The places of scrape_sf_state_schedule at which the run drives the browser
\* session get_webdriver returned.
DrivingPlaces == {"navigate", "parse", "enrich"}

\* C24: in the web variant every run drives a browser session that has not
\* been quit: the driver the cached get_webdriver hands out is never one that
\* an earlier run closed in its finally block.
C24_SessionNotQuit ==
  (variant = "web" /\ pc \in DrivingPlaces) => driver = "live"

(***************************************************************************)
(* C25: the term of the detail-page requests                               *)
(***************************************************************************)

\* The value of the parameter name in the query string of url, << >> when
\* the query has no such parameter.
QueryParam(url, name) ==
  LET key == name \o << "=" >>
      starts == {i \in 2..Len(url) :
                   /\ url[i - 1] \in {"?", "&"}
                   /\ i + Len(key) - 1 <= Len(url)
                   /\ SubSeq(url, i, i + Len(key) - 1) = key}
      i == CHOOSE k \in starts : \A j \in starts : k <= j
      rest == SubSeq(url, i + Len(key), Len(url))
      amp == Find(rest, << "&" >>)
  IN  IF starts = {} THEN << >>
      ELSE IF amp = 0 THEN rest ELSE SubSeq(rest, 1, amp - 1)

\* The records whose detail page the enrollment loop has requested so far.
Requested == IF pc = "enrich" THEN 1..(idx - 1) ELSE 1..Len(data)

\* C25: in the web variant every detail-page request made to read a row's
\* enrollment is for the term of the run: the TERM of the detail URL equals
\* the run's term parameter, for every row.
C25_DetailTermIsRunTerm ==
  (variant = "web" /\ config.ok) =>
    \A i \in Requested :
      LET url == detail_url(data[i].ClassNbr)
      IN  /\ QueryParam(url, << "C", "L", "A", "S", "S", "_", "N", "B", "R" >>) = data[i].ClassNbr
          /\ QueryParam(url, << "T", "E", "R", "M" >>) = config.term

====
